---- MODULE Spec2Model ----
(***************************************************************************)
(* A model of the buck2 change detector (btd): the cell resolver, the      *)
(* immediate-impact engine, the recursive-impact engine, the target        *)
(* patterns, the rerun planner and the checks of errors and dangling edges.*)
(*                                                                         *)
(* Strings are TLA+ strings; a character is a string of length one.        *)
(* Rust's Option is a sequence of length zero (None) or one (Some).        *)
(***************************************************************************)
EXTENDS Integers, Sequences, FiniteSets, TLC

(***************************************************************************)
(* Strings (std::str, as used through td_util::string::InternString)       *)
(***************************************************************************)

None == <<>>

Some(v) == <<v>>

IsSome(o) == Len(o) = 1

\* The characters that occur in the model, in ascending byte order.
Alphabet == "*./0123456789:@_abcdefghijklmnopqrstuvwxyz"

CharAt(s, i) == SubSeq(s, i, i)

CharRank(c) == CHOOSE i \in 1..Len(Alphabet) : CharAt(Alphabet, i) = c

StartsWith(s, p) == Len(p) <= Len(s) /\ SubSeq(s, 1, Len(p)) = p

EndsWith(s, p) == Len(p) <= Len(s) /\ SubSeq(s, Len(s) - Len(p) + 1, Len(s)) = p

StripPrefix(s, p) == IF StartsWith(s, p) THEN Some(SubSeq(s, Len(p) + 1, Len(s))) ELSE None

StripSuffix(s, p) == IF EndsWith(s, p) THEN Some(SubSeq(s, 1, Len(s) - Len(p))) ELSE None

UnwrapOr(o, d) == IF IsSome(o) THEN o[1] ELSE d

\* The positions at which sep occurs in s.
Occurrences(s, sep) == {i \in 1..(Len(s) - Len(sep) + 1) : SubSeq(s, i, i + Len(sep) - 1) = sep}

Min(S) == CHOOSE x \in S : \A y \in S : x <= y

Max(S) == CHOOSE x \in S : \A y \in S : y <= x

\* str::split_once: split at the first occurrence of sep.
SplitOnce(s, sep) ==
    IF Occurrences(s, sep) = {} THEN None
    ELSE LET i == Min(Occurrences(s, sep))
         IN  Some(<<SubSeq(s, 1, i - 1), SubSeq(s, i + Len(sep), Len(s))>>)

\* str::rsplit_once: split at the last occurrence of sep.
RSplitOnce(s, sep) ==
    IF Occurrences(s, sep) = {} THEN None
    ELSE LET i == Max(Occurrences(s, sep))
         IN  Some(<<SubSeq(s, 1, i - 1), SubSeq(s, i + Len(sep), Len(s))>>)

\* Byte-wise lexicographic order of strings (Ord for str).
RECURSIVE StrLess(_, _)
StrLess(a, b) ==
    IF Len(b) = 0 THEN FALSE
    ELSE IF Len(a) = 0 THEN TRUE
    ELSE IF CharAt(a, 1) = CharAt(b, 1)
         THEN StrLess(SubSeq(a, 2, Len(a)), SubSeq(b, 2, Len(b)))
         ELSE CharRank(CharAt(a, 1)) < CharRank(CharAt(b, 1))

(***************************************************************************)
(* Path types (btd/src/buck/types.rs)                                      *)
(***************************************************************************)

\* CellPath::cell
CellPathCell(p) == SplitOnce(p, "//")[1][1]

\* CellPath::path
CellPathPath(p) == SplitOnce(p, "//")[1][2]

\* CellName::join: format!("{}//{}", cell, path)
CellNameJoin(cell, path) == cell \o "//" \o path

\* ProjectRelativePath::join
ProjectRelativePathJoin(self, suffix) ==
    IF Len(self) = 0 THEN suffix ELSE self \o "/" \o suffix

\* Package::join: the label `package:name`
PackageJoin(package, name) == package \o ":" \o name

\* str::trim_start_matches('/')
RECURSIVE TrimStartSlashes(_)
TrimStartSlashes(s) ==
    IF StartsWith(s, "/") THEN TrimStartSlashes(SubSeq(s, 2, Len(s))) ELSE s

\* RuleType::short: the text after the last ':'
RuleTypeShort(rt) ==
    IF IsSome(RSplitOnce(rt, ":")) THEN RSplitOnce(rt, ":")[1][2] ELSE rt

\* RuleType::file: the text before the last ':'
RuleTypeFile(rt) ==
    IF IsSome(RSplitOnce(rt, ":")) THEN RSplitOnce(rt, ":")[1][1] ELSE rt

\* CellPath::is_prelude_bzl_file
IsPreludeBzlFile(p) == StartsWith(p, "prelude//") /\ EndsWith(p, ".bzl")

\* str::contains
Contains(s, sub) == Occurrences(s, sub) # {}

\* CellRelativePath::parent: the text before the last '/', None without one
CellRelativePathParent(p) ==
    IF IsSome(RSplitOnce(p, "/")) THEN Some(RSplitOnce(p, "/")[1][1]) ELSE None

\* CellPath::parent
CellPathParent(p) ==
    IF IsSome(CellRelativePathParent(CellPathPath(p)))
    THEN CellNameJoin(CellPathCell(p), CellRelativePathParent(CellPathPath(p))[1])
    ELSE CellPathCell(p) \o "//"

\* CellPath::extension: the text after the last '.' of the file name
CellPathExtension(p) ==
    LET file == UnwrapOr(RSplitOnce(p, "/"), <<"", "">>)[2]
    IN  IF IsSome(RSplitOnce(file, ".")) THEN Some(RSplitOnce(file, ".")[1][2]) ELSE None

\* CellInfo::default_build_files, without the .v2 variant that
\* is_target_file strips itself
CellBuildFile(cell) ==
    IF cell \in {"fbcode", "prelude", "toolchains"} THEN "TARGETS" ELSE "BUCK"

\* CellPath::is_target_file
IsTargetFile(p) ==
    LET suffix == UnwrapOr(StripSuffix(p, ".v2"), p)
        rest   == StripSuffix(suffix, CellBuildFile(CellPathCell(p)))
    IN  IF IsSome(rest) THEN EndsWith(rest[1], "/") ELSE FALSE

\* CellPath::is_package_file
IsPackageFile(p) == EndsWith(p, "/PACKAGE")

\* std::path::Path::parent on a relative path without a trailing '/':
\* "a/b" -> "a", "a" -> "", "" -> None
PathParent(p) ==
    IF Len(p) = 0 THEN None
    ELSE IF IsSome(RSplitOnce(p, "/")) THEN Some(RSplitOnce(p, "/")[1][1])
    ELSE Some("")

\* is_buck_deployment (btd/src/buck/config.rs)
IsBuckDeployment(p) == StartsWith(p, "fbsource//tools/buck2-versions/")

\* is_buckconfig_change (btd/src/buck/config.rs)
IsBuckconfigChange(p) ==
    IF Contains(p, "buck2/tests") THEN FALSE
    ELSE \/ CellPathExtension(p) = Some("buckconfig")
         \/ StartsWith(p, "fbsource//tools/buckconfigs/")
         \/ /\ CellPathExtension(p) = None
            /\ \/ StartsWith(p, "fbsource//arvr/mode/")
               \/ StartsWith(p, "fbsource//fbcode/mode/")

\* Package::as_cell_path: the same bytes
AsCellPath(package) == package

\* TargetPattern::matches
TargetPatternMatches(pat, target) ==
    IF EndsWith(pat, ":") THEN StartsWith(target, pat)
    ELSE IF IsSome(StripSuffix(pat, "/..."))
    THEN LET rest == StripPrefix(target, StripSuffix(pat, "/...")[1])
         IN  IsSome(rest) /\ (StartsWith(rest[1], ":") \/ StartsWith(rest[1], "/"))
    ELSE pat = target

\* A variant of matches_package that wants a sub-package after the prefix.
TargetPatternMatchesPackageBelow(pat, pkg) ==
    IF IsSome(StripSuffix(pat, ":")) THEN StripSuffix(pat, ":")[1] = pkg
    ELSE IF IsSome(StripSuffix(pat, "/..."))
    THEN LET rest == StripPrefix(pkg, StripSuffix(pat, "/...")[1])
         IN  IsSome(rest) /\ StartsWith(rest[1], "/")
    ELSE FALSE

\* TargetPattern::matches_package
TargetPatternMatchesPackage(pat, pkg) ==
    IF IsSome(StripSuffix(pat, ":")) THEN StripSuffix(pat, ":")[1] = pkg
    ELSE IF IsSome(StripSuffix(pat, "/..."))
    THEN LET rest == StripPrefix(pkg, StripSuffix(pat, "/...")[1])
         IN  IsSome(rest) /\ (Len(rest[1]) = 0 \/ StartsWith(rest[1], "/"))
    ELSE FALSE

\* TargetPattern::is_specific_target
IsSpecificTarget(pat) ==
    IF IsSome(RSplitOnce(pat, ":")) THEN Len(RSplitOnce(pat, ":")[1][2]) # 0 ELSE FALSE

\* TargetLabel::package: the text before the last ':'
TargetLabelPackage(l) == RSplitOnce(l, ":")[1][1]

\* glob::Pattern::matches_with under require_literal_separator, for patterns of
\* literal characters and `*`: a `*` matches any run of characters but `/`.
RECURSIVE GlobMatches(_, _)
GlobMatches(pat, path) ==
    IF Len(pat) = 0 THEN Len(path) = 0
    ELSE IF CharAt(pat, 1) = "*"
    THEN \/ GlobMatches(SubSeq(pat, 2, Len(pat)), path)
         \/ /\ Len(path) > 0
            /\ CharAt(path, 1) # "/"
            /\ GlobMatches(pat, SubSeq(path, 2, Len(path)))
    ELSE /\ Len(path) > 0
         /\ CharAt(pat, 1) = CharAt(path, 1)
         /\ GlobMatches(SubSeq(pat, 2, Len(pat)), SubSeq(path, 2, Len(path)))

\* GlobSpec::matches: any pattern matches
GlobSpecMatches(globs, path) == \E i \in 1..Len(globs) : GlobMatches(globs[i], path)

\* BuckTarget::label
Label(t) == PackageJoin(t.package, t.name)

\* BuckTarget::label_key: the pair (package, name)
LabelKey(t) == <<t.package, t.name>>

\* Ord for the label key: lexicographic on (package, name)
LabelKeyLess(a, b) == StrLess(a[1], b[1]) \/ (a[1] = b[1] /\ StrLess(a[2], b[2]))

(***************************************************************************)
(* State                                                                   *)
(***************************************************************************)

VARIABLES
    cpc,          \* cell resolver: position ("parse", "resolve", "unresolve", "done", "error", "off")
    cellsJson,    \* cell resolver: the cells input, cell name -> absolute path
    cells,        \* CellInfo.cells: cell name -> project relative path
    paths,        \* CellInfo.paths: sequence of <<cell, path>>, longest path first
    cellPath,     \* the CellPath handed to resolve
    resolved,     \* Option: result of resolve
    unresolved,   \* Option: result of unresolve
    pc,           \* impact engine: position ("immediate", "recursive", "loop", "done", "off")
    base,         \* Targets at the base revision: sequence of BuckTarget
    diff,         \* Targets at the diff revision: sequence of BuckTarget
    diffImports,  \* the Import entries of diff: sequence of BuckImport
    changes,      \* Changes: set of [cell_path, project_path]
    trackPrelude, \* track_prelude_changes
    impact,       \* GraphImpact: [recursive, non_recursive], sequences of indices into diff
    depth,        \* Option<usize>
    follow,       \* the follow_rule_type predicate: "all" or "not_cxx"
    rdeps,        \* TargetMap of reverse edges
    todo,         \* sequence of indices into diff
    todoSilent,   \* todo_silent
    nonRecursiveChanges, \* non_recursive_changes
    done,         \* HashMap<TargetLabelKey, bool>
    result,       \* Vec<Vec<&BuckTarget>>: the layers
    iter,         \* iterations of the loop entered so far
    ppc,          \* target patterns: position ("matches", "matches_package", "done", "off")
    pattern,      \* a TargetPattern
    targetLabel,  \* a TargetLabel
    matched,      \* result of pattern.matches(label)
    matchedPackage, \* result of pattern.matches_package(label.package())
    rrpc,         \* rerun planner: position ("rerun", "starlark", "build_files", "package_file", "globs", "existence", "done", "off")
    rrBase,       \* the Import entries of base: sequence of BuckImport
    rrChanges,    \* Changes.cell_paths: sequence of [status, path]
    rrRdeps,      \* rerun_starlark: file -> [package: Option, importers: sequence]
    rrTodo,       \* rerun_starlark: those still to process
    rrDone,       \* rerun_starlark: those in todo or processed
    rrChanged,    \* rerun_starlark: the packages found
    rrRes,        \* rerun: package -> PackageStatus
    rrExistence,  \* what rerun_build_file_existence returned
    rrOut,        \* Option: what rerun returns
    rrIter,       \* iterations of the worklist loop so far
    ckpc,         \* checks: position ("errors", "errors_done", "dangling", "dangling_done", "off")
    ckBaseErrors, \* base.errors(): sequence of BuckError
    ckDiffErrors, \* diff.errors(): sequence of BuckError
    ckChanges,    \* Changes.cell_paths: sequence of CellPath
    ckBaseTargets, \* base.targets(): sequence of BuckTarget
    ckDiffTargets, \* diff.targets(): sequence of BuckTarget
    ckImmediate,  \* immediate_changes: sequence of BuckTarget
    ckUniverse,   \* universe: sequence of TargetPattern
    ckErrors,    \* Vec<ValidationError>: what the check returns
    mpc,          \* driver: position ("validate", "diff", "checks", "print", "errors_file", "done", "off")
    margs,        \* Args: [universe, universe2, diff, print_rerun, write_errors_to_file, check_dangling]
    menv,         \* what the checks return on the graphs read: [check_errors, check_dangling]
    muniverse,    \* the validated universe: sequence of TargetPattern
    mlog,         \* what main has done so far: sequence of step names
    mresult,     \* what main returns: "running", "Ok", an error kind or "Panic"
    gpc,          \* glean: position ("passes", "merge", "done", "off")
    gBase,        \* glean: base.targets(): sequence of BuckTarget
    gDiff,        \* glean: diff.targets(): sequence of BuckTarget
    gChanges,     \* glean: the changed paths
    gDepth,       \* glean: depth: Option<usize>
    gHeaderRec,   \* glean: header_rec: layers of indices into gDiff
    gOtherRec,    \* glean: other_rec: layers of indices into gDiff
    gSeen,        \* glean: merge: set of label keys seen
    gK,           \* glean: merge: the zipped layer the loop is at
    gRes,        \* glean: merge: res, layers of indices into gDiff
    spc,          \* sudo: position ("collect", "loop", "print", "printed", "off")
    sTargets,     \* sudo: targets.targets(): sequence of BuckTarget with labels
    sTodo,        \* sudo: todo: indices into sTargets, the last is popped first
    sSudos,       \* sudo: sudos: set of label keys
    sIter,        \* sudo: iterations of the while loop so far
    sPrinted,     \* output: the target handed to Output::from_target, or 0
    sLabels,     \* output: Output.labels of that target
    tgpc,         \* target graph: mode ("calls", "race", "off")
    tgRdeps,      \* target_id_to_rdeps: map TargetId -> Vec<TargetId>
    tgDeps,       \* target_id_to_deps: map TargetId -> Vec<TargetId>
    tgHintAffected,\* ci_hint_to_affected: map TargetId -> Vec<TargetId>
    tgAffectedHints,\* affected_to_ci_hints: map TargetId -> Vec<TargetId>
    tgMinimized,  \* minimized_targets: map TargetId -> rule type
    tgCalls,      \* target graph: number of calls made so far
    tgLast,       \* target graph: the last call and the lengths of the maps before it
    tgRace,       \* the concurrent calls: [t, d1, d2] of add_rdep(t, d1) and remove_rdep(t, d2)
    apc,          \* add_rdep: position ("rdeps", "deps", "returned", "off")
    rpc           \* remove_rdep: position ("rdeps", "rdeps_remove", "deps", "deps_remove", "returned", "off")

cellVars == <<cpc, cellsJson, cells, paths, cellPath, resolved, unresolved>>

impactInputs == <<base, diff, diffImports, changes, trackPrelude>>

loopVars == <<rdeps, todo, todoSilent, nonRecursiveChanges, done, iter>>

impactVars == <<pc, impactInputs, impact, depth, follow, loopVars, result>>

patternVars == <<ppc, pattern, targetLabel, matched, matchedPackage>>

rerunInputs == <<rrBase, rrChanges>>

starlarkVars == <<rrRdeps, rrTodo, rrDone, rrChanged, rrIter>>

rerunVars == <<rrpc, rerunInputs, starlarkVars, rrRes, rrExistence, rrOut>>

checkInputs ==
    <<ckBaseErrors, ckDiffErrors, ckChanges, ckBaseTargets, ckDiffTargets,
      ckImmediate, ckUniverse>>

checkVars == <<ckpc, checkInputs, ckErrors>>

mainVars == <<mpc, margs, menv, muniverse, mlog, mresult>>

gleanVars == <<gpc, gBase, gDiff, gChanges, gDepth, gHeaderRec, gOtherRec, gSeen, gK, gRes>>

sudoVars == <<spc, sTargets, sTodo, sSudos, sIter, sPrinted, sLabels>>

graphVars ==
    <<tgpc, tgRdeps, tgDeps, tgHintAffected, tgAffectedHints, tgMinimized, tgCalls, tgLast,
      tgRace, apc, rpc>>

\* What the operations of one component leave alone: the other components.
outsideCells ==
    <<impactVars, patternVars, rerunVars, checkVars,
    mainVars, gleanVars, sudoVars, graphVars>>

outsideImpact ==
    <<cellVars, patternVars, rerunVars, checkVars, mainVars,
    gleanVars, sudoVars, graphVars>>

outsidePattern ==
    <<cellVars, impactVars, rerunVars, checkVars, mainVars,
    gleanVars, sudoVars, graphVars>>

outsideRerun ==
    <<cellVars, impactVars, patternVars, checkVars, mainVars,
    gleanVars, sudoVars, graphVars>>

outsideCheck ==
    <<cellVars, impactVars, patternVars, rerunVars, mainVars,
    gleanVars, sudoVars, graphVars>>

outsideMain ==
    <<cellVars, impactVars, patternVars, rerunVars, checkVars,
    gleanVars, sudoVars, graphVars>>

outsideGlean ==
    <<cellVars, impactVars, patternVars, rerunVars,
    checkVars, mainVars, sudoVars, graphVars>>

outsideSudo ==
    <<cellVars, impactVars, patternVars, rerunVars, checkVars,
    mainVars, gleanVars, graphVars>>

outsideGraph ==
    <<cellVars, impactVars, patternVars, rerunVars,
    checkVars, mainVars, gleanVars, sudoVars>>

vars ==
    <<cellVars, impactVars, patternVars, rerunVars, checkVars,
    mainVars, gleanVars, sudoVars, graphVars>>

(***************************************************************************)
(* Cell resolver (btd/src/buck/cells.rs)                                   *)
(***************************************************************************)

\* Inputs of the cell resolver: cell names, absolute directories (a root and
\* two nested directories) and cell relative paths, none of which enters the
\* directory of a nested cell.
CellNames == {"r", "a", "b"}

CellDirs == {"/w", "/w/a", "/w/a/b"}

CellRelativePaths == {"x", "c/x", "ab/x"}

\* Every cell has a directory of its own.
CellsInputs ==
    {json \in UNION {[names -> CellDirs] : names \in SUBSET CellNames \ {{}}} :
        \A j, k \in DOMAIN json : j # k => json[j] # json[k]}

\* parse_cells_data: the shortest value is the prefix of all the others.
CellsPrefix(json) ==
    CHOOSE v \in {json[k] : k \in DOMAIN json} :
        \A k \in DOMAIN json : Len(v) <= Len(json[k])

ParseCellsOk(json) == \A k \in DOMAIN json : StartsWith(json[k], CellsPrefix(json))

ParseCellsData(json) ==
    [k \in DOMAIN json |->
        TrimStartSlashes(StripPrefix(json[k], CellsPrefix(json))[1])]

\* create_paths: a stable sort by descending path length of the map's entries,
\* which a HashMap yields in no particular order.
IsCreatePaths(cs, ps) ==
    /\ Len(ps) = Cardinality(DOMAIN cs)
    /\ {ps[i][1] : i \in 1..Len(ps)} = DOMAIN cs
    /\ \A i \in 1..Len(ps) : ps[i][2] = cs[ps[i][1]]
    /\ \A i, j \in 1..Len(ps) : i < j => Len(ps[i][2]) >= Len(ps[j][2])

CreatePaths(cs) ==
    {ps \in [1..Cardinality(DOMAIN cs) -> {<<k, cs[k]>> : k \in DOMAIN cs}] :
        IsCreatePaths(cs, ps)}

\* CellInfo::resolve
Resolve(cs, p) ==
    IF CellPathCell(p) \in DOMAIN cs
    THEN Some(ProjectRelativePathJoin(cs[CellPathCell(p)], CellPathPath(p)))
    ELSE None

\* CellInfo::unresolve: the first entry of paths whose path is a prefix of path.
UnresolveMatches(ps, path) == {i \in 1..Len(ps) : StartsWith(path, ps[i][2])}

Unresolve(ps, path) ==
    IF UnresolveMatches(ps, path) = {} THEN None
    ELSE LET i == Min(UnresolveMatches(ps, path))
             x == StripPrefix(path, ps[i][2])[1]
         IN  Some(CellNameJoin(ps[i][1], UnwrapOr(StripPrefix(x, "/"), x)))

CellInit ==
    /\ cpc = "parse"
    /\ cellsJson \in CellsInputs
    /\ cells = <<>>
    /\ paths = <<>>
    /\ cellPath \in {CellNameJoin(c, r) : c \in CellNames, r \in CellRelativePaths}
    /\ CellPathCell(cellPath) \in DOMAIN cellsJson
    /\ resolved = None
    /\ unresolved = None

\* CellInfo::parse
CellParse ==
    /\ cpc = "parse"
    /\ IF ParseCellsOk(cellsJson)
       THEN /\ cells' = ParseCellsData(cellsJson)
            /\ paths' \in CreatePaths(cells')
            /\ cpc' = "resolve"
       ELSE /\ cpc' = "error"
            /\ UNCHANGED <<cells, paths>>
    /\ UNCHANGED <<cellsJson, cellPath, resolved, unresolved>>
    /\ UNCHANGED outsideCells

CellResolve ==
    /\ cpc = "resolve"
    /\ resolved' = Resolve(cells, cellPath)
    /\ cpc' = IF IsSome(resolved') THEN "unresolve" ELSE "error"
    /\ UNCHANGED <<cellsJson, cells, paths, cellPath, unresolved>>
    /\ UNCHANGED outsideCells

CellUnresolve ==
    /\ cpc = "unresolve"
    /\ unresolved' = Unresolve(paths, resolved[1])
    /\ cpc' = IF IsSome(unresolved') THEN "done" ELSE "error"
    /\ UNCHANGED <<cellsJson, cells, paths, cellPath, resolved>>
    /\ UNCHANGED outsideCells

CellNext == CellParse \/ CellResolve \/ CellUnresolve


(***************************************************************************)
(* Immediate impact (btd/src/diff.rs)                                      *)
(***************************************************************************)

RECURSIVE ConcatAll(_)
ConcatAll(ss) == IF Len(ss) = 0 THEN <<>> ELSE Head(ss) \o ConcatAll(Tail(ss))

Indices(ts) == [i \in 1..Len(ts) |-> i]

\* Vec::sort_by_key(|t| t.label_key()): a stable sort, here by insertion.
RECURSIVE InsertByLabelKey(_, _, _)
InsertByLabelKey(ts, sorted, x) ==
    IF Len(sorted) = 0 THEN <<x>>
    ELSE IF LabelKeyLess(LabelKey(ts[x]), LabelKey(ts[Head(sorted)]))
    THEN <<x>> \o sorted
    ELSE <<Head(sorted)>> \o InsertByLabelKey(ts, Tail(sorted), x)

RECURSIVE SortByLabelKey(_, _)
SortByLabelKey(ts, xs) ==
    IF Len(xs) = 0 THEN <<>>
    ELSE InsertByLabelKey(ts, SortByLabelKey(ts, SubSeq(xs, 1, Len(xs) - 1)), xs[Len(xs)])

\* Changes::contains_cell_path
ContainsCellPath(chs, path) == \E c \in chs : c.cell_path = path

\* Changes::contains_package
ContainsPackage(chs, package) == ContainsCellPath(chs, AsCellPath(package))

\* The reverse import edges changed_bzl_files records: prelude imports are
\* skipped as a whole unless prelude changes are tracked.
BzlTracked(imports, track) ==
    {i \in 1..Len(imports) : track \/ ~IsPreludeBzlFile(imports[i].file)}

BzlRdeps(imports, track, y) ==
    {imports[i].file : i \in {j \in BzlTracked(imports, track) :
        \E k \in 1..Len(imports[j].imports) : imports[j].imports[k] = y}}

\* A variant of the loop below that stops at the changed files themselves.
BzlClosureSeedsOnly(imports, track, res, work) == res

\* The worklist loop of changed_bzl_files.
RECURSIVE BzlClosure(_, _, _, _)
BzlClosure(imports, track, res, work) ==
    IF work = {} THEN res
    ELSE LET x == CHOOSE w \in work : TRUE
             new == BzlRdeps(imports, track, x) \ res
         IN  BzlClosure(imports, track, res \cup new, (work \ {x}) \cup new)

\* changed_bzl_files
ChangedBzlFiles(imports, chs, track) ==
    LET seed == {imports[i].file : i \in {j \in BzlTracked(imports, track) :
                    ContainsCellPath(chs, imports[j].file)}}
    IN  BzlClosure(imports, track, seed, seed)

\* is_changed_ci_srcs
IsChangedCiSrcs(file_deps, chs) ==
    IF Len(file_deps) = 0 \/ chs = {} THEN FALSE
    ELSE \E c \in chs : GlobSpecMatches(file_deps, c.project_path)

\* Targets::targets_by_label_key followed by get: the target of that key, if any.
OldTarget(ts, key) ==
    IF \E i \in 1..Len(ts) : LabelKey(ts[i]) = key
    THEN Some(ts[Max({i \in 1..Len(ts) : LabelKey(ts[i]) = key})])
    ELSE None

ChangePackage(chs, t) == ContainsPackage(chs, t.package)

ChangeHash(b, t) ==
    IF IsSome(OldTarget(b, LabelKey(t))) THEN OldTarget(b, LabelKey(t))[1].hash # t.hash ELSE TRUE

ChangePackageValues(b, t) ==
    IF IsSome(OldTarget(b, LabelKey(t)))
    THEN OldTarget(b, LabelKey(t))[1].package_values # t.package_values
    ELSE TRUE

ChangeInputs(chs, t) == \E k \in 1..Len(t.inputs) : ContainsCellPath(chs, t.inputs[k])

ChangeCiSrcs(chs, t) == IsChangedCiSrcs(t.ci_srcs, chs)

ChangeRule(bzl, t) == bzl # {} /\ RuleTypeFile(t.rule_type) \in bzl

\* A variant of the condition below that forgets the changed inputs.
IsRecursiveChangeNoInputs(b, chs, bzl, t) ==
    \/ ChangePackage(chs, t)
    \/ ChangeHash(b, t)
    \/ ChangeCiSrcs(chs, t)
    \/ ChangeRule(bzl, t)

\* The condition under which immediate_target_changes pushes to res.recursive.
IsRecursiveChange(b, chs, bzl, t) ==
    \/ ChangePackage(chs, t)
    \/ ChangeHash(b, t)
    \/ ChangeInputs(chs, t)
    \/ ChangeCiSrcs(chs, t)
    \/ ChangeRule(bzl, t)

\* immediate_target_changes
ImmediateTargetChanges(b, d, imports, chs, track) ==
    LET bzl == ChangedBzlFiles(imports, chs, track)
        rec(i) == IsRecursiveChange(b, chs, bzl, d[i])
        nonrec(i) == ~rec(i) /\ ChangePackageValues(b, d[i])
    IN  [recursive |-> SortByLabelKey(d, SelectSeq(Indices(d), rec)),
         non_recursive |-> SortByLabelKey(d, SelectSeq(Indices(d), nonrec))]

(***************************************************************************)
(* Recursive impact (btd/src/diff.rs)                                      *)
(***************************************************************************)

\* cxx_rule_type (btd/src/glean.rs)
CxxRuleType(rt) == RuleTypeShort(rt) = "cxx_library" \/ RuleTypeShort(rt) = "cxx_executable"

\* The two predicates the callers pass as follow_rule_type: |_| true and
\* |x| !cxx_rule_type(x).
FollowRuleType(f, rt) == IF f = "all" THEN TRUE ELSE ~CxxRuleType(rt)

\* A variant of hint_applies_to that accepts a name without the prefix.
HintAppliesToAnyName(t) ==
    Some(<<t.package, UnwrapOr(StripPrefix(t.name, "ci_hint@"), t.name)>>)

\* hint_applies_to
HintAppliesTo(t) ==
    IF IsSome(StripPrefix(t.name, "ci_hint@"))
    THEN Some(<<t.package, StripPrefix(t.name, "ci_hint@")[1]>>)
    ELSE None

\* TargetMap: the values inserted under labels and under patterns, in
\* insertion order; get yields the values whose key matches a label.
EmptyTargetMap == [labels |-> <<>>, patterns |-> <<>>]

TargetMapInsert(m, key, v) == [m EXCEPT !.labels = Append(@, <<key, v>>)]

TargetMapInsertPattern(m, pat, v) == [m EXCEPT !.patterns = Append(@, <<pat, v>>)]

RECURSIVE Values(_)
Values(entries) == IF Len(entries) = 0 THEN <<>> ELSE <<Head(entries)[2]>> \o Values(Tail(entries))

TargetMapGet(m, label) ==
    LET exact(e) == e[1] = label
        matching(e) == TargetPatternMatches(e[1], label)
    IN  Values(SelectSeq(m.labels, exact)) \o Values(SelectSeq(m.patterns, matching))

RECURSIVE InsertDeps(_, _, _)
InsertDeps(m, deps, v) ==
    IF Len(deps) = 0 THEN m ELSE InsertDeps(TargetMapInsert(m, Head(deps), v), Tail(deps), v)

RECURSIVE InsertCiDeps(_, _, _)
InsertCiDeps(m, pats, v) ==
    IF Len(pats) = 0 THEN m
    ELSE InsertCiDeps(TargetMapInsertPattern(m, Head(pats), v), Tail(pats), v)

\* The first loop over diff.targets(): deps and ci_deps of targets i..Len(ts).
RECURSIVE InsertEdges(_, _, _)
InsertEdges(m, ts, i) ==
    IF i > Len(ts) THEN m
    ELSE InsertEdges(InsertCiDeps(InsertDeps(m, ts[i].deps, i), ts[i].ci_deps, i), ts, i + 1)

\* The hints map after the first loop: destination key -> label of the hint
\* (a later insert of the same key replaces the earlier one).
IsHint(t) == RuleTypeShort(t.rule_type) = "ci_hint" /\ IsSome(HintAppliesTo(t))

HintsFor(ts, dest) == {i \in 1..Len(ts) : IsHint(ts[i]) /\ HintAppliesTo(ts[i])[1] = dest}

\* The second loop: the first target of each hinted key takes the hint out of
\* the map and gets the edge hint -> target.
TakesHint(ts, j) ==
    /\ HintsFor(ts, LabelKey(ts[j])) # {}
    /\ \A k \in 1..(j - 1) : LabelKey(ts[k]) # LabelKey(ts[j])

RECURSIVE InsertHints(_, _, _)
InsertHints(m, ts, j) ==
    IF j > Len(ts) THEN m
    ELSE IF TakesHint(ts, j)
    THEN InsertHints(
            TargetMapInsert(m, Label(ts[Max(HintsFor(ts, LabelKey(ts[j])))]), j), ts, j + 1)
    ELSE InsertHints(m, ts, j + 1)

\* The reverse-edge index recursive_target_changes builds.
BuildRdeps(ts) == InsertHints(InsertEdges(EmptyTargetMap, ts, 1), ts, 1)

\* A variant of add_result that does not sort.
AddResultUnsorted(ts, results, items) == Append(results, items)

\* add_result
AddResult(ts, results, items) == Append(results, SortByLabelKey(ts, items))

\* Vec::truncate
Truncate(xs, n) == IF n < Len(xs) THEN SubSeq(xs, 1, n) ELSE xs

\* A variant of the inner loops that follows every rule type.
CandidatesAllRuleTypes(ts, m, f, frontier) ==
    ConcatAll([k \in 1..Len(frontier) |-> TargetMapGet(m, Label(ts[frontier[k]]))])

\* The reverse dependencies the inner loops visit, in order.
Candidates(ts, m, f, frontier) ==
    ConcatAll([k \in 1..Len(frontier) |->
        IF FollowRuleType(f, ts[frontier[k]].rule_type)
        THEN TargetMapGet(m, Label(ts[frontier[k]]))
        ELSE <<>>])

\* A variant of the match below that never revisits a queued-but-silent target.
RECURSIVE VisitNoSilent(_, _, _)
VisitNoSilent(ts, cands, st) ==
    IF Len(cands) = 0 THEN st
    ELSE LET r == Head(cands)
             key == LabelKey(ts[r])
         IN  IF key \notin DOMAIN st.done
             THEN VisitNoSilent(ts, Tail(cands),
                        [st EXCEPT !.done = @ @@ (key :> TRUE), !.next = Append(@, r)])
             ELSE VisitNoSilent(ts, Tail(cands), st)

\* match done.entry(rdep.label_key()), for each visited reverse dependency.
RECURSIVE Visit(_, _, _)
Visit(ts, cands, st) ==
    IF Len(cands) = 0 THEN st
    ELSE LET r == Head(cands)
             key == LabelKey(ts[r])
         IN  IF key \notin DOMAIN st.done
             THEN Visit(ts, Tail(cands),
                        [st EXCEPT !.done = @ @@ (key :> TRUE), !.next = Append(@, r)])
             ELSE IF ~st.done[key]
             THEN Visit(ts, Tail(cands),
                        [st EXCEPT !.done[key] = TRUE, !.next_silent = Append(@, r)])
             ELSE Visit(ts, Tail(cands), st)

\* A variant of the range below that runs one iteration more.
InRangeInclusive(d, i) == IF d = None THEN TRUE ELSE i <= d[1]

\* for _ in 0..depth.unwrap_or(usize::MAX)
InRange(d, i) == IF d = None THEN TRUE ELSE i < d[1]

\* A variant of the initial done map that leaves the non-recursive changes out.
InitialDoneRecursiveOnly(ts, imp) ==
    [key \in {LabelKey(ts[imp.recursive[k]]) : k \in 1..Len(imp.recursive)} |-> TRUE]

\* The initial done map: recursive changes true, then non-recursive changes
\* false (collected in that order, the later entry of a key replacing the earlier).
InitialDone(ts, imp) ==
    [key \in {LabelKey(ts[imp.recursive[k]]) : k \in 1..Len(imp.recursive)}
             \cup {LabelKey(ts[imp.non_recursive[k]]) : k \in 1..Len(imp.non_recursive)} |->
        ~\E k \in 1..Len(imp.non_recursive) : LabelKey(ts[imp.non_recursive[k]]) = key]

(***************************************************************************)
(* Inputs of the impact engines                                            *)
(***************************************************************************)

\* Bounds of the inputs.
MaxEdges == 2

MaxDepth == 1

\* The targets of the graphs: a library, its ci_hint, a ci_hint-typed target
\* without the ci_hint@ prefix, and a ci_hint for a target that does not exist.
\* Their order is not the order of their label keys.
Catalog ==
    << [package |-> "f//a", name |-> "x", rule_type |-> "prelude//r.bzl:cxx_library"],
       [package |-> "f//a", name |-> "ci_hint@x", rule_type |-> "f//h.bzl:ci_hint"],
       [package |-> "f//b", name |-> "y", rule_type |-> "f//h.bzl:ci_hint"],
       [package |-> "f//b", name |-> "ci_hint@x", rule_type |-> "f//h.bzl:ci_hint"] >>

CatalogLabels == [i \in 1..Len(Catalog) |-> Label(Catalog[i])]

CiDepPatterns == <<"f//a:", "f//...">>

\* The Import entries: h.bzl imports r.bzl, which imports u.bzl; t.bzl imports h.bzl.
Imports ==
    << [file |-> "prelude//r.bzl", imports |-> <<"prelude//u.bzl">>],
       [file |-> "f//h.bzl", imports |-> <<"prelude//r.bzl">>],
       [file |-> "prelude//u.bzl", imports |-> <<>>],
       [file |-> "f//t.bzl", imports |-> <<"f//h.bzl">>] >>

\* The changed paths: a source file, a package directory, and two .bzl files.
ChangeCatalog ==
    { [cell_path |-> "f//a/s.c", project_path |-> "f/a/s.c"],
      [cell_path |-> "f//a", project_path |-> "f/a"],
      [cell_path |-> "prelude//u.bzl", project_path |-> "prelude/u.bzl"],
      [cell_path |-> "f//h.bzl", project_path |-> "f/h.bzl"] }

PackageValues(labels) == [labels |-> labels, cfg_modifiers |-> "null"]

BuckTarget(i, deps, ci_deps, inputs, ci_srcs, hash, labels) ==
    [package |-> Catalog[i].package, name |-> Catalog[i].name,
     rule_type |-> Catalog[i].rule_type,
     deps |-> deps, ci_deps |-> ci_deps, inputs |-> inputs, ci_srcs |-> ci_srcs,
     hash |-> hash, package_values |-> PackageValues(labels)]

RECURSIVE SubsetsUpTo(_, _)
SubsetsUpTo(S, k) ==
    IF k = 0 THEN {{}}
    ELSE LET prev == SubsetsUpTo(S, k - 1)
         IN  prev \cup {q \cup {e} : q \in prev, e \in S}

\* Edges of a graph: <<"dep", i, j>> puts the label of j in the deps of i,
\* <<"ci", i, k>> puts pattern k in the ci_deps of i (of the target named y,
\* which the second pattern makes a reverse dependency of itself).
EdgeUniverse ==
    {<<"dep", e[1], e[2]>> : e \in {p \in (1..Len(Catalog)) \X (1..Len(Catalog)) : p[1] # p[2]}}
        \cup {<<"ci", i, k>> : i \in {j \in 1..Len(Catalog) : Catalog[j].name = "y"},
                                k \in 1..Len(CiDepPatterns)}

DepsOf(E, i) ==
    LET has(j) == <<"dep", i, j>> \in E
        js == SelectSeq(Indices(Catalog), has)
    IN  [k \in 1..Len(js) |-> CatalogLabels[js[k]]]

CiDepsOf(E, i) ==
    LET has(k) == <<"ci", i, k>> \in E
        ks == SelectSeq(Indices(CiDepPatterns), has)
    IN  [n \in 1..Len(ks) |-> CiDepPatterns[ks[n]]]

\* Graph inputs: every graph of at most MaxEdges edges over the catalog, in which
\* one target differs from base in its hash and at most one in its package values.
Kinds ==
    {kind \in [1..Len(Catalog) -> {"same", "hash", "pv"}] :
        /\ Cardinality({i \in 1..Len(Catalog) : kind[i] = "hash"}) = 1
        /\ Cardinality({i \in 1..Len(Catalog) : kind[i] = "pv"}) <= 1}

GraphInputs ==
    {[base |-> [i \in 1..Len(Catalog) |->
                    BuckTarget(i, DepsOf(E, i), CiDepsOf(E, i), <<>>, <<>>, "1", <<"v1">>)],
      diff |-> [i \in 1..Len(Catalog) |->
                    BuckTarget(i, DepsOf(E, i), CiDepsOf(E, i), <<>>, <<>>,
                               IF kind[i] = "hash" THEN "2" ELSE "1",
                               IF kind[i] = "pv" THEN <<"v2">> ELSE <<"v1">>)],
      changes |-> {},
      track |-> FALSE] :
        E \in SubsetsUpTo(EdgeUniverse, MaxEdges), kind \in Kinds}

\* Immediate inputs: the library with or without an input and a ci_srcs glob,
\* new or changed in hash or package values, next to a second target, under
\* every set of changed paths, with and without prelude tracking.
ImmediateInputs ==
    {[base |-> (IF old = "new" THEN <<>>
                ELSE <<BuckTarget(1, <<>>, <<>>, inputs, ci_srcs, "1", <<"v1">>)>>)
               \o <<BuckTarget(3, <<>>, <<>>, <<>>, <<>>, "1", <<"v1">>)>>,
      diff |-> <<BuckTarget(1, <<>>, <<>>, inputs, ci_srcs,
                            IF old = "hash" THEN "2" ELSE "1",
                            IF old = "pv" THEN <<"v2">> ELSE <<"v1">>),
                 BuckTarget(3, <<>>, <<>>, <<>>, <<>>, "1",
                            IF old3 = "pv" THEN <<"v2">> ELSE <<"v1">>)>>,
      changes |-> chs,
      track |-> track] :
        old \in {"new", "same", "hash", "pv"}, old3 \in {"same", "pv"},
        inputs \in {<<>>, <<"f//a/s.c">>}, ci_srcs \in {<<>>, <<"f/a/*.c">>},
        chs \in SUBSET ChangeCatalog, track \in BOOLEAN}

Depths == {None} \cup {Some(n) : n \in 0..MaxDepth}

ImpactOff ==
    /\ pc = "off"
    /\ base = <<>> /\ diff = <<>> /\ diffImports = <<>> /\ changes = {}
    /\ trackPrelude = FALSE
    /\ impact = [recursive |-> <<>>, non_recursive |-> <<>>]
    /\ depth = None /\ follow = "all"
    /\ rdeps = EmptyTargetMap
    /\ todo = <<>> /\ todoSilent = <<>> /\ nonRecursiveChanges = <<>>
    /\ done = <<>> /\ result = <<>> /\ iter = 0

CellOff ==
    /\ cpc = "off"
    /\ cellsJson = <<>> /\ cells = <<>> /\ paths = <<>>
    /\ cellPath = "" /\ resolved = None /\ unresolved = None

(***************************************************************************)
(* The impact pipeline of main (btd/src/lib.rs): immediate_target_changes, *)
(* then recursive_target_changes, one action per loop iteration            *)
(***************************************************************************)

ImpactInit ==
    /\ pc = "immediate"
    /\ \E in \in GraphInputs \cup ImmediateInputs :
        /\ base = in.base
        /\ diff = in.diff
        /\ changes = in.changes
        /\ trackPrelude = in.track
    /\ diffImports = Imports
    /\ impact = [recursive |-> <<>>, non_recursive |-> <<>>]
    /\ depth = None /\ follow = "all"
    /\ rdeps = EmptyTargetMap
    /\ todo = <<>> /\ todoSilent = <<>> /\ nonRecursiveChanges = <<>>
    /\ done = <<>> /\ result = <<>> /\ iter = 0

\* let immediate = diff::immediate_target_changes(&base, &diff, &changes, ...)
Immediate ==
    /\ pc = "immediate"
    /\ impact' = ImmediateTargetChanges(base, diff, diffImports, changes, trackPrelude)
    /\ pc' = "recursive"
    /\ UNCHANGED <<impactInputs, depth, follow, loopVars, result>>
    /\ UNCHANGED outsideImpact

\* recursive_target_changes, when changes.recursive is empty
EarlyReturn ==
    /\ pc = "recursive"
    /\ Len(impact.recursive) = 0
    /\ \E d \in Depths, f \in {"all", "not_cxx"} :
        /\ depth' = d
        /\ follow' = f
        /\ LET res == (IF Len(impact.non_recursive) = 0 THEN <<>>
                       ELSE <<impact.non_recursive>>) \o << <<>> >>
           IN  result' = IF d = None THEN res ELSE Truncate(res, d[1])
    /\ pc' = "done"
    /\ UNCHANGED <<impactInputs, impact, loopVars>>
    /\ UNCHANGED outsideImpact

\* recursive_target_changes up to the loop: the reverse edges and the queues
Setup ==
    /\ pc = "recursive"
    /\ Len(impact.recursive) # 0
    /\ \E d \in Depths, f \in {"all", "not_cxx"} :
        /\ depth' = d
        /\ follow' = f
    /\ rdeps' = BuildRdeps(diff)
    /\ todo' = impact.recursive
    /\ nonRecursiveChanges' = impact.non_recursive
    /\ done' = InitialDone(diff, impact)
    /\ result' = <<>>
    /\ todoSilent' = <<>>
    /\ iter' = 0
    /\ pc' = "loop"
    /\ UNCHANGED <<impactInputs, impact>>
    /\ UNCHANGED outsideImpact

\* One iteration of the loop that does not break
LoopBody ==
    /\ pc = "loop"
    /\ InRange(depth, iter)
    /\ ~(Len(todo) = 0 /\ Len(todoSilent) = 0)
    /\ LET st == Visit(diff, Candidates(diff, rdeps, follow, todo \o todoSilent),
                       [done |-> done, next |-> <<>>, next_silent |-> <<>>])
       IN  /\ done' = st.done
           /\ todo' = st.next
           /\ todoSilent' = st.next_silent
    /\ IF Len(nonRecursiveChanges) # 0
       THEN /\ result' = AddResult(diff, result, nonRecursiveChanges \o todo)
            /\ nonRecursiveChanges' = <<>>
       ELSE IF Len(todo) # 0
       THEN /\ result' = AddResult(diff, result, todo)
            /\ UNCHANGED nonRecursiveChanges
       ELSE UNCHANGED <<result, nonRecursiveChanges>>
    /\ iter' = iter + 1
    /\ UNCHANGED <<pc, impactInputs, impact, depth, follow, rdeps>>
    /\ UNCHANGED outsideImpact

\* The iteration that breaks, and the return
LoopBreak ==
    /\ pc = "loop"
    /\ InRange(depth, iter)
    /\ Len(todo) = 0 /\ Len(todoSilent) = 0
    /\ result' = AddResult(diff,
                    IF Len(nonRecursiveChanges) # 0
                    THEN AddResult(diff, result, nonRecursiveChanges)
                    ELSE result,
                    todo)
    /\ pc' = "done"
    /\ UNCHANGED <<impactInputs, impact, depth, follow, loopVars>>
    /\ UNCHANGED outsideImpact

\* The range of the loop is exhausted, and the return
LoopExhausted ==
    /\ pc = "loop"
    /\ ~InRange(depth, iter)
    /\ result' = AddResult(diff, result, todo)
    /\ pc' = "done"
    /\ UNCHANGED <<impactInputs, impact, depth, follow, loopVars>>
    /\ UNCHANGED outsideImpact

(***************************************************************************)
(* Target patterns (btd/src/buck/types.rs)                                 *)
(***************************************************************************)

\* Inputs: the packages and names of the doc tests of matches and
\* matches_package, and a name with a slash in it.
PatternPackages == {"foo//", "foo//bar", "foo//bard", "foo//bar/baz", "foo//moo/bar"}

PatternNames == {"qux", "literal", "a/b"}

PatternLabels == {PackageJoin(p, n) : p \in PatternPackages, n \in PatternNames}

\* The recursive pattern of a package: foo//... for the root of a cell,
\* foo//bar/... below it.
RecursivePattern(p) == IF EndsWith(p, "//") THEN p \o "..." ELSE p \o "/..."

Patterns ==
    PatternLabels
        \cup {p \o ":" : p \in PatternPackages}
        \cup {RecursivePattern(p) : p \in PatternPackages}

PatternOff ==
    /\ ppc = "off"
    /\ pattern = "" /\ targetLabel = ""
    /\ matched = FALSE /\ matchedPackage = FALSE

PatternInit ==
    /\ ppc = "matches"
    /\ pattern \in Patterns
    /\ targetLabel \in PatternLabels
    /\ matched = FALSE /\ matchedPackage = FALSE

\* pattern.matches(&label)
PatternMatches ==
    /\ ppc = "matches"
    /\ matched' = TargetPatternMatches(pattern, targetLabel)
    /\ ppc' = "matches_package"
    /\ UNCHANGED <<pattern, targetLabel, matchedPackage>>
    /\ UNCHANGED outsidePattern

\* pattern.matches_package(&label.package())
PatternMatchesPackage ==
    /\ ppc = "matches_package"
    /\ matchedPackage' = TargetPatternMatchesPackage(pattern, TargetLabelPackage(targetLabel))
    /\ ppc' = "done"
    /\ UNCHANGED <<pattern, targetLabel, matched>>
    /\ UNCHANGED outsidePattern

PatternNext == PatternMatches \/ PatternMatchesPackage

(***************************************************************************)
(* Rerun planner (btd/src/rerun.rs)                                        *)
(***************************************************************************)

\* is_buckconfig
IsBuckconfig(path) ==
    \/ CellPathExtension(path) = Some("bcfg")
    \/ CellPathExtension(path) = Some("buckconfig")
    \/ Contains(path, "/mode/")
    \/ Contains(path, "/buckconfigs/")

\* A variant of invalidates_graph that leaves the buck deployment out.
InvalidatesGraphNoDeployment(path) == IsBuckconfig(path)

\* invalidates_graph
InvalidatesGraph(path) == IsBuckconfig(path) \/ IsBuckDeployment(path)

\* package_set: the packages of the Import entries that have one
PackageSet(b) == {b[i].package[1] : i \in {j \in 1..Len(b) : IsSome(b[j].package)}}

\* HashMap::entry(k).or_default() on the map of reverse imports
RdepsEntry(m, k) ==
    IF k \in DOMAIN m THEN m[k] ELSE [package |-> None, importers |-> <<>>]

\* rerun_starlark, the inner loop: file is imported through imports[n..]
RECURSIVE RdepsPushImports(_, _, _, _)
RdepsPushImports(m, file, imports, n) ==
    IF n > Len(imports) THEN m
    ELSE LET e == RdepsEntry(m, imports[n])
         IN  RdepsPushImports(
                 (imports[n] :> [e EXCEPT !.importers = Append(@, file)]) @@ m,
                 file, imports, n + 1)

\* rerun_starlark, the first loop: the map of reverse imports of base
RECURSIVE StarlarkRdeps(_, _, _)
StarlarkRdeps(m, b, n) ==
    IF n > Len(b) THEN m
    ELSE LET i  == b[n]
             m1 == IF IsSome(i.package)
                   THEN (i.file :> [RdepsEntry(m, i.file) EXCEPT !.package = i.package]) @@ m
                   ELSE m
         IN  StarlarkRdeps(RdepsPushImports(m1, i.file, i.imports, 1), b, n + 1)

\* A variant of dirty_imports that takes the Added paths too.
DirtyImportsWithAdded(cs) == cs

\* rerun_starlark, dirty_imports: the Removed and the Modified paths, in order
DirtyImports(cs) ==
    SelectSeq(cs, LAMBDA c : c.status \in {"Removed", "Modified"})

\* The paths of a sequence of changes
ChangePaths(cs) == [n \in 1..Len(cs) |-> cs[n].path]

\* rerun_starlark, `for d in ds`: push the importers that are not done yet
RECURSIVE PushImporters(_, _, _)
PushImporters(st, ds, n) ==
    IF n > Len(ds) THEN st
    ELSE IF ds[n] \in st.done THEN PushImporters(st, ds, n + 1)
    ELSE PushImporters(
             [todo |-> Append(st.todo, ds[n]), done |-> st.done \cup {ds[n]}],
             ds, n + 1)

\* rerun_starlark, the last loop: the parents of the Modified build files
ModifiedBuildFiles(cs) ==
    {CellPathParent(cs[n].path) :
        n \in {k \in 1..Len(cs) : cs[k].status = "Modified" /\ IsTargetFile(cs[k].path)}}

\* PackageResolver::get, only as far as its emptiness is used: the chain of
\* packages that are q or enclose q
PackageEncloses(a, q) ==
    \/ a = q
    \/ EndsWith(a, "//") /\ StartsWith(q, a)
    \/ StartsWith(q, a \o "/")

\* rerun_package_file
RerunPackageFile(cs, starlarkChanges, allPackages) ==
    LET files == {cs[n].path : n \in 1..Len(cs)} \cup starlarkChanges
        changedPackage == {CellPathParent(f) : f \in {g \in files : IsPackageFile(g)}}
    IN  IF changedPackage = {} THEN {}
        ELSE {p \in allPackages : \E c \in changedPackage : PackageEncloses(c, p)}

\* find_closest_enclosing_package
RECURSIVE FindClosestEnclosingPackage(_, _, _)
FindClosestEnclosingPackage(path, allPackages, cell) ==
    IF path = None THEN None
    ELSE IF CellNameJoin(cell, path[1]) \in allPackages
    THEN Some(CellNameJoin(cell, path[1]))
    ELSE FindClosestEnclosingPackage(PathParent(path[1]), allPackages, cell)

\* rerun_globs
RerunGlobs(cs, allPackages) ==
    LET found ==
            {FindClosestEnclosingPackage(
                 PathParent(CellPathPath(cs[n].path)), allPackages, CellPathCell(cs[n].path)) :
                 n \in {k \in 1..Len(cs) : cs[k].status \in {"Added", "Removed"}}}
    IN  {o[1] : o \in {x \in found : IsSome(x)}}

\* A variant of rerun_build_file_existence in which the later change wins.
RECURSIVE RerunBuildFileExistenceLastWins(_, _, _)
RerunBuildFileExistenceLastWins(res, cs, n) ==
    IF n > Len(cs) THEN res
    ELSE IF cs[n].status = "Modified" \/ ~IsTargetFile(cs[n].path)
    THEN RerunBuildFileExistenceLastWins(res, cs, n + 1)
    ELSE LET package == CellPathParent(cs[n].path)
             status  == IF cs[n].status = "Added" THEN "Present" ELSE "Unknown"
         IN  RerunBuildFileExistenceLastWins((package :> status) @@ res, cs, n + 1)

\* rerun_build_file_existence
RECURSIVE RerunBuildFileExistence(_, _, _)
RerunBuildFileExistence(res, cs, n) ==
    IF n > Len(cs) THEN res
    ELSE IF cs[n].status = "Modified" \/ ~IsTargetFile(cs[n].path)
    THEN RerunBuildFileExistence(res, cs, n + 1)
    ELSE LET package == CellPathParent(cs[n].path)
             status  == IF cs[n].status = "Added" THEN "Present" ELSE "Unknown"
         IN  IF status = "Unknown"
             THEN RerunBuildFileExistence(
                      IF package \in DOMAIN res THEN res ELSE (package :> status) @@ res,
                      cs, n + 1)
             ELSE RerunBuildFileExistence((package :> status) @@ res, cs, n + 1)

\* The empty HashMap
EmptyMap == [x \in {} |-> "Present"]

\* add_present
AddPresent(S) == [x \in S |-> "Present"]

\* A variant of HashMap::extend that keeps the entries already there.
ExtendKeep(res, new) == res @@ new

\* HashMap::extend: the new entries replace the old ones
Extend(res, new) == new @@ res

\* Inputs: the paths of the tests of rerun.rs and config.rs.
MaxChanges == 2

ConfigPaths ==
    {"foo//x.bcfg",
     "fbcode//buck2/tests/foo_data/.buckconfig",
     "fbsource//arvr/mode/dev",
     "fbsource//tools/buckconfigs/cxx/windows/clang.inc",
     "fbsource//tools/buck2-versions/stable"}

SourcePaths ==
    {"foo//bar/BUCK", "foo//bar/BUCK.v2", "foo//bar/PACKAGE",
     "foo//bar/defs.bzl", "foo//utils.bzl", "foo//bar/baz/src.txt"}

StatusKinds == {"Added", "Modified", "Removed"}

ChangeEntries == [status : StatusKinds, path : ConfigPaths \cup SourcePaths]

\* The change lists of up to n entries, no path twice
RECURSIVE ChangeLists(_)
ChangeLists(n) ==
    IF n = 0 THEN {<<>>}
    ELSE ChangeLists(n - 1)
         \cup {Append(cs, e) : cs \in {l \in ChangeLists(n - 1) : Len(l) = n - 1},
                               e \in ChangeEntries}

DistinctPaths(cs) == \A i, j \in 1..Len(cs) : cs[i].path = cs[j].path => i = j

BuckImport(file, imports, package) ==
    [file |-> file, imports |-> imports, package |-> package]

\* The base graphs: one whose .bzl files import each other in a cycle, one
\* whose PACKAGE file imports a .bzl file, and one without Import entries.
RerunBases ==
    {<<BuckImport("foo//bar/BUCK", <<"foo//bar/defs.bzl">>, Some("foo//bar")),
       BuckImport("foo//bar/defs.bzl", <<"foo//utils.bzl">>, None),
       BuckImport("foo//utils.bzl", <<"foo//bar/defs.bzl">>, None),
       BuckImport("foo//bar/baz/BUCK", <<>>, Some("foo//bar/baz"))>>,
     <<BuckImport("foo//bar/BUCK", <<>>, Some("foo//bar")),
       BuckImport("foo//bar/PACKAGE", <<"foo//utils.bzl">>, None),
       BuckImport("foo//utils.bzl", <<>>, None)>>,
     <<>>}

RerunOff ==
    /\ rrpc = "off"
    /\ rrBase = <<>> /\ rrChanges = <<>>
    /\ rrRdeps = EmptyMap /\ rrTodo = <<>> /\ rrDone = {} /\ rrChanged = {}
    /\ rrIter = 0
    /\ rrRes = EmptyMap /\ rrExistence = EmptyMap /\ rrOut = None

RerunInit ==
    /\ rrpc = "rerun"
    /\ rrBase \in RerunBases
    /\ rrChanges \in {cs \in ChangeLists(MaxChanges) : DistinctPaths(cs)}
    /\ rrRdeps = EmptyMap /\ rrTodo = <<>> /\ rrDone = {} /\ rrChanged = {}
    /\ rrIter = 0
    /\ rrRes = EmptyMap /\ rrExistence = EmptyMap /\ rrOut = None

\* rerun: some changed path invalidates the graph
RerunEverything ==
    /\ rrpc = "rerun"
    /\ \E n \in 1..Len(rrChanges) : InvalidatesGraph(rrChanges[n].path)
    /\ rrOut' = None
    /\ rrpc' = "done"
    /\ UNCHANGED <<rerunInputs, starlarkVars, rrRes, rrExistence>>
    /\ UNCHANGED outsideRerun

\* rerun enters rerun_starlark: the reverse imports and the worklist
RerunStarlark ==
    /\ rrpc = "rerun"
    /\ \A n \in 1..Len(rrChanges) : ~InvalidatesGraph(rrChanges[n].path)
    /\ rrRdeps' = StarlarkRdeps(EmptyMap, rrBase, 1)
    /\ rrTodo' = ChangePaths(DirtyImports(rrChanges))
    /\ rrDone' = {rrTodo'[n] : n \in 1..Len(rrTodo')}
    /\ rrpc' = "starlark"
    /\ UNCHANGED <<rerunInputs, rrChanged, rrIter, rrRes, rrExistence, rrOut>>
    /\ UNCHANGED outsideRerun

\* rerun_starlark: one iteration of `while let Some(x) = todo.pop()`
StarlarkStep ==
    /\ rrpc = "starlark"
    /\ rrTodo # <<>>
    /\ LET x    == rrTodo[Len(rrTodo)]
           rest == SubSeq(rrTodo, 1, Len(rrTodo) - 1)
       IN  IF x \in DOMAIN rrRdeps
           THEN LET st == PushImporters([todo |-> rest, done |-> rrDone],
                                        rrRdeps[x].importers, 1)
                IN  /\ rrChanged' = IF IsSome(rrRdeps[x].package)
                                    THEN rrChanged \cup {rrRdeps[x].package[1]}
                                    ELSE rrChanged
                    /\ rrTodo' = st.todo
                    /\ rrDone' = st.done
           ELSE /\ rrTodo' = rest
                /\ UNCHANGED <<rrChanged, rrDone>>
    /\ rrIter' = rrIter + 1
    /\ UNCHANGED <<rrpc, rerunInputs, rrRdeps, rrRes, rrExistence, rrOut>>
    /\ UNCHANGED outsideRerun

\* rerun_starlark returns: the Modified build files are added, and rerun
\* extends its map with the packages
StarlarkReturn ==
    /\ rrpc = "starlark"
    /\ rrTodo = <<>>
    /\ rrChanged' = rrChanged \cup ModifiedBuildFiles(rrChanges)
    /\ rrRes' = Extend(rrRes, AddPresent(rrChanged'))
    /\ rrpc' = "package_file"
    /\ UNCHANGED <<rerunInputs, rrRdeps, rrTodo, rrDone, rrIter, rrExistence, rrOut>>
    /\ UNCHANGED outsideRerun

\* rerun: the packages of rerun_package_file
RerunPackageFiles ==
    /\ rrpc = "package_file"
    /\ rrRes' = Extend(rrRes, AddPresent(RerunPackageFile(rrChanges, rrDone, PackageSet(rrBase))))
    /\ rrpc' = "globs"
    /\ UNCHANGED <<rerunInputs, starlarkVars, rrExistence, rrOut>>
    /\ UNCHANGED outsideRerun

\* rerun: the packages of rerun_globs
RerunGlobbed ==
    /\ rrpc = "globs"
    /\ rrRes' = Extend(rrRes, AddPresent(RerunGlobs(rrChanges, PackageSet(rrBase))))
    /\ rrpc' = "existence"
    /\ UNCHANGED <<rerunInputs, starlarkVars, rrExistence, rrOut>>
    /\ UNCHANGED outsideRerun

\* rerun: the map of rerun_build_file_existence, extended last, and the return
RerunExistence ==
    /\ rrpc = "existence"
    /\ rrExistence' = RerunBuildFileExistence(EmptyMap, rrChanges, 1)
    /\ rrRes' = Extend(rrRes, rrExistence')
    /\ rrOut' = Some(rrRes')
    /\ rrpc' = "done"
    /\ UNCHANGED <<rerunInputs, starlarkVars>>
    /\ UNCHANGED outsideRerun

RerunNext ==
    \/ RerunEverything \/ RerunStarlark \/ StarlarkStep \/ StarlarkReturn
    \/ RerunPackageFiles \/ RerunGlobbed \/ RerunExistence

(***************************************************************************)
(* Checks (btd/src/check.rs)                                               *)
(***************************************************************************)

\* ValidationError
PackageFailed(package, error) ==
    [kind |-> "PackageFailed", package |-> package, error |-> error]

PreexistingPackageFailed(package, error) ==
    [kind |-> "PreexistingPackageFailed", package |-> package, error |-> error]

TargetDeleted(deleted, referenced_by) ==
    [kind |-> "TargetDeleted", deleted |-> deleted, referenced_by |-> referenced_by]

BrokenEdge(missing, referenced_by) ==
    [kind |-> "BrokenEdge", missing |-> missing, referenced_by |-> referenced_by]

\* in_universe
InUniverse(universe, dep) ==
    \/ universe = <<>>
    \/ \E n \in 1..Len(universe) : TargetPatternMatches(universe[n], dep)

\* check_errors, the first loop: diff_errors, package -> error
RECURSIVE DiffErrorsMap(_, _, _)
DiffErrorsMap(m, errs, n) ==
    IF n > Len(errs) THEN m
    ELSE DiffErrorsMap((errs[n].package :> errs[n].error) @@ m, errs, n + 1)

\* A variant of the second loop of check_errors that keeps a package whose
\* message changed.
RemoveBaseErrorsSameMessage(m, errs) ==
    [p \in DOMAIN m \ {errs[n].package : n \in {k \in 1..Len(errs) :
                           errs[k].package \in DOMAIN m /\ m[errs[k].package] = errs[k].error}}
        |-> m[p]]

\* check_errors, the second loop: the packages of base.errors() are removed
RemoveBaseErrors(m, errs) ==
    [p \in DOMAIN m \ {errs[n].package : n \in 1..Len(errs)} |-> m[p]]

\* PackageResolver::get(q).pop(): the value stored for the deepest package
\* that is q or encloses q
ErrorsTreeDeepest(tree, q) ==
    LET above == {a \in DOMAIN tree : PackageEncloses(a, q)}
    IN  IF above = {} THEN None
        ELSE LET a == CHOOSE x \in above : \A y \in above : Len(y) <= Len(x)
             IN  Some(<<a, tree[a]>>)

\* check_errors, the last loop: one PreexistingPackageFailed for each bad
\* package, in the order of the changes
RECURSIVE PreexistingErrors(_, _, _, _, _)
PreexistingErrors(res, bad, tree, cs, n) ==
    IF n > Len(cs) THEN res
    ELSE LET hit == ErrorsTreeDeepest(tree, cs[n])
         IN  IF IsSome(hit) /\ hit[1][1] \notin bad
             THEN PreexistingErrors(
                      Append(res, PreexistingPackageFailed(hit[1][1], hit[1][2])),
                      bad \cup {hit[1][1]}, tree, cs, n + 1)
             ELSE PreexistingErrors(res, bad, tree, cs, n + 1)

\* A variant of `if !res.is_empty() { return res; }` that never returns early.
ReturnsEarlyNever(res) == FALSE

\* check_errors: `if !res.is_empty() { return res; }`
ReturnsEarly(res) == res # <<>>

\* The sequences that list the elements of S once each (the orders in which
\* a HashMap can be iterated)
Orderings(S) ==
    {q \in [1..Cardinality(S) -> S] : \A i, j \in 1..Cardinality(S) : q[i] = q[j] => i = j}

\* check_broken_edges, the condition on one edge, without the base edges
IsBrokenEdgeIgnoringBase(edge, existsAfter, universe, baseEdges) ==
    /\ edge \notin existsAfter
    /\ InUniverse(universe, edge)

\* check_broken_edges, the condition on one edge
IsBrokenEdge(edge, existsAfter, universe, baseEdges) ==
    /\ edge \notin existsAfter
    /\ ~\E n \in 1..Len(baseEdges) : baseEdges[n] = edge
    /\ InUniverse(universe, edge)

\* check_broken_edges
RECURSIVE CheckBrokenEdges(_, _, _, _, _, _, _)
CheckBrokenEdges(errors, edges, target, existsAfter, universe, baseEdges, n) ==
    IF n > Len(edges) THEN errors
    ELSE CheckBrokenEdges(
             IF IsBrokenEdge(edges[n], existsAfter, universe, baseEdges)
             THEN Append(errors, BrokenEdge(edges[n], Label(target)))
             ELSE errors,
             edges, target, existsAfter, universe, baseEdges, n + 1)

\* check_dangling: the deps of the base target with the same label key
BaseDeps(baseTargets, target) ==
    LET same == {n \in 1..Len(baseTargets) : LabelKey(baseTargets[n]) = LabelKey(target)}
    IN  IF same = {} THEN <<>> ELSE baseTargets[Max(same)].deps

\* check_dangling, the first loop
RECURSIVE BrokenEdgesOf(_, _, _, _, _, _)
BrokenEdgesOf(errors, immediate, baseTargets, existsAfter, universe, n) ==
    IF n > Len(immediate) THEN errors
    ELSE BrokenEdgesOf(
             CheckBrokenEdges(errors, immediate[n].deps, immediate[n], existsAfter,
                              universe, BaseDeps(baseTargets, immediate[n]), 1),
             immediate, baseTargets, existsAfter, universe, n + 1)

\* A variant of deleted.remove(edge) that leaves the target in the set.
DeletedRemoveKeeps(deleted, edge) == deleted

\* HashSet::remove in check_deleted_edges
DeletedRemove(deleted, edge) == deleted \ {edge}

\* check_deleted_edges: the state is [errors, deleted]
RECURSIVE CheckDeletedEdges(_, _, _, _, _)
CheckDeletedEdges(st, edges, target, universe, n) ==
    IF n > Len(edges) THEN st
    ELSE CheckDeletedEdges(
             IF InUniverse(universe, edges[n]) /\ edges[n] \in st.deleted
             THEN [errors  |-> Append(st.errors, TargetDeleted(edges[n], Label(target))),
                   deleted |-> DeletedRemove(st.deleted, edges[n])]
             ELSE st,
             edges, target, universe, n + 1)

\* check_dangling, the last loop
RECURSIVE DeletedEdgesOf(_, _, _, _)
DeletedEdgesOf(st, diffTargets, universe, n) ==
    IF n > Len(diffTargets) THEN st
    ELSE DeletedEdgesOf(
             CheckDeletedEdges(st, diffTargets[n].deps, diffTargets[n], universe, 1),
             diffTargets, universe, n + 1)

\* check_dangling
CheckDanglingResult(baseTargets, diffTargets, immediate, universe) ==
    LET existsAfter == {Label(diffTargets[n]) : n \in 1..Len(diffTargets)}
        errors  == BrokenEdgesOf(<<>>, immediate, baseTargets, existsAfter, universe, 1)
        deleted == {Label(baseTargets[n]) : n \in 1..Len(baseTargets)} \ existsAfter
    IN  IF deleted = {} THEN errors
        ELSE DeletedEdgesOf([errors |-> errors, deleted |-> deleted],
                            diffTargets, universe, 1).errors

\* Inputs of check_errors: the packages and messages of its tests.
MaxErrors == 2

ErrorPackages == {"foo//bar", "foo//bar/baz", "foo//baz"}

ErrorMessages == {"Bad 0", "Bad 1"}

BuckError == [package : ErrorPackages, error : ErrorMessages]

\* The error lists of up to n entries
RECURSIVE ErrorLists(_)
ErrorLists(n) ==
    IF n = 0 THEN {<<>>}
    ELSE ErrorLists(n - 1)
         \cup {Append(es, e) : es \in {l \in ErrorLists(n - 1) : Len(l) = n - 1},
                               e \in BuckError}

DistinctPackages(es) == \A i, j \in 1..Len(es) : es[i].package = es[j].package => i = j

CheckPaths == {"foo//bar/baz/qux/file.txt", "foo//bar/file.txt", "foo//other/file.txt"}

\* The lists of up to n changed paths, no path twice
RECURSIVE CheckPathLists(_)
CheckPathLists(n) ==
    IF n = 0 THEN {<<>>}
    ELSE CheckPathLists(n - 1)
         \cup {Append(cs, c) : cs \in {l \in CheckPathLists(n - 1) : Len(l) = n - 1},
                               c \in CheckPaths}

DistinctElements(q) == \A i, j \in 1..Len(q) : q[i] = q[j] => i = j

\* Inputs of check_dangling: the targets of its test, in package foo//bar.
TargetTarget(name, deps) ==
    [package |-> "foo//bar", name |-> name,
     deps |-> [n \in 1..Len(deps) |-> PackageJoin("foo//bar", deps[n])]]

\* What a graph can hold for each name: nothing, or the target with one of
\* these dependency lists. ddd is never a target; bar//q:eee is outside foo.
TargetChoices ==
    <<{<<>>} \cup {<<TargetTarget("aaa", d)>> : d \in {<<>>, <<"ccc">>}},
      {<<>>} \cup {<<TargetTarget("bbb", d)>> : d \in {<<>>, <<"aaa">>, <<"aaa", "ccc">>}}
             \cup {<<[TargetTarget("bbb", <<"aaa">>) EXCEPT !.deps = Append(@, "bar//q:eee")]>>},
      {<<>>} \cup {<<TargetTarget("ccc", d)>> : d \in {<<>>, <<"ddd">>, <<"aaa">>}}>>

Graphs == {a \o b \o c : a \in TargetChoices[1], b \in TargetChoices[2], c \in TargetChoices[3]}

Universes == {<<>>, <<"foo//...">>, <<"bar//...">>}

\* The subsequences of a sequence
RECURSIVE SubSequences(_)
SubSequences(q) ==
    IF q = <<>> THEN {<<>>}
    ELSE LET rest == SubSequences(Tail(q))
         IN  rest \cup {<<Head(q)>> \o r : r \in rest}

CheckOff ==
    /\ ckpc = "off"
    /\ ckBaseErrors = <<>> /\ ckDiffErrors = <<>> /\ ckChanges = <<>>
    /\ ckBaseTargets = <<>> /\ ckDiffTargets = <<>>
    /\ ckImmediate = <<>> /\ ckUniverse = <<>>
    /\ ckErrors = <<>>

CheckErrorsInit ==
    /\ ckpc = "errors"
    /\ ckBaseErrors \in {es \in ErrorLists(MaxErrors) : DistinctPackages(es)}
    /\ ckDiffErrors \in {es \in ErrorLists(MaxErrors) : DistinctPackages(es)}
    /\ ckChanges \in {cs \in CheckPathLists(MaxChanges) : DistinctElements(cs)}
    /\ ckBaseTargets = <<>> /\ ckDiffTargets = <<>>
    /\ ckImmediate = <<>> /\ ckUniverse = <<>>
    /\ ckErrors = <<>>

CheckDanglingInit ==
    /\ ckpc = "dangling"
    /\ ckBaseErrors = <<>> /\ ckDiffErrors = <<>> /\ ckChanges = <<>>
    /\ ckBaseTargets \in Graphs
    /\ ckDiffTargets \in Graphs
    /\ ckImmediate \in SubSequences(ckDiffTargets)
    /\ ckUniverse \in Universes
    /\ ckErrors = <<>>

\* check_errors; the PackageFailed errors come in the order of a HashMap
CheckErrors ==
    /\ ckpc = "errors"
    /\ LET diffErrors == DiffErrorsMap(EmptyMap, ckDiffErrors, 1)
           errorsTree == diffErrors
           remaining  == RemoveBaseErrors(diffErrors, ckBaseErrors)
       IN  \E order \in Orderings(DOMAIN remaining) :
               LET res == [n \in 1..Len(order) |-> PackageFailed(order[n], remaining[order[n]])]
               IN  ckErrors' = IF ReturnsEarly(res) THEN res
                               ELSE PreexistingErrors(res, {}, errorsTree, ckChanges, 1)
    /\ ckpc' = "errors_done"
    /\ UNCHANGED checkInputs
    /\ UNCHANGED outsideCheck

\* check_dangling
CheckDangling ==
    /\ ckpc = "dangling"
    /\ ckErrors' = CheckDanglingResult(ckBaseTargets, ckDiffTargets, ckImmediate, ckUniverse)
    /\ ckpc' = "dangling_done"
    /\ UNCHANGED checkInputs
    /\ UNCHANGED outsideCheck

(***************************************************************************)
(* The driver (btd/src/lib.rs: main)                                       *)
(***************************************************************************)

\* validate_universe, one pattern: the error it raises, if any.  A pattern
\* that starts with `//` is refused before the specific-target test is made.
ValidateOneSpecificFirst(u) ==
    IF IsSpecificTarget(u) THEN Some("ExplicitTarget")
    ELSE IF StartsWith(u, "//") THEN Some("MissingQualifier")
    ELSE None

ValidateOne(u) ==
    IF StartsWith(u, "//") THEN Some("MissingQualifier")
    ELSE IF IsSpecificTarget(u) THEN Some("ExplicitTarget")
    ELSE None

\* validate_universe: the loop over the patterns in the order given, which
\* returns at the first pattern refused; `acc` is the Vec built so far.
RECURSIVE ValidateUniverseFrom(_, _)
ValidateUniverseFrom(us, acc) ==
    IF us = <<>> THEN [error |-> None, got |-> None, universe |-> acc]
    ELSE IF IsSome(ValidateOne(Head(us)))
    THEN [error |-> ValidateOne(Head(us)), got |-> Some(Head(us)), universe |-> <<>>]
    ELSE ValidateUniverseFrom(Tail(us), Append(acc, Head(us)))

ValidateUniverse(us) == ValidateUniverseFrom(us, <<>>)

\* check_empty: Err(Check::NewErrors) unless there is no error
CheckEmptyAlwaysOk(errors) == "Ok"

CheckEmpty(errors) == IF errors = <<>> THEN "Ok" ELSE "NewErrors"

\* The command lines and the outcomes of the checks that are tried.
MaxPatterns == 2

UniversePatterns == {"foo//...", "foo//bar:", "foo//bar:baz", "//foo/...", "//foo:bar"}

Universe2Patterns == {"bar//...", "//bar:baz"}

PatternLists(S, n) == UNION {[1..k -> S] : k \in 0..n}

MainOff ==
    /\ mpc = "off"
    /\ margs = <<>> /\ menv = <<>>
    /\ muniverse = <<>> /\ mlog = <<>>
    /\ mresult = "off"

MainInit ==
    /\ mpc = "validate"
    /\ margs \in [universe : PatternLists(UniversePatterns, MaxPatterns),
                  universe2 : PatternLists(Universe2Patterns, 1),
                  diff : BOOLEAN, print_rerun : BOOLEAN,
                  write_errors_to_file : BOOLEAN, check_dangling : BOOLEAN]
    /\ menv \in [check_errors : {<<>>, <<"PackageFailed">>},
                 check_dangling : {<<>>, <<"TargetDeleted">>}]
    /\ muniverse = <<>> /\ mlog = <<>>
    /\ mresult = "running"

\* main: `validate_universe(args.universe.into_iter().chain(args.universe2))?`
MainValidateUniverse ==
    /\ mpc = "validate"
    /\ LET r == ValidateUniverse(margs.universe \o margs.universe2)
       IN  IF IsSome(r.error)
           THEN /\ mresult' = r.error[1]
                /\ mpc' = "done"
                /\ UNCHANGED muniverse
           ELSE /\ muniverse' = r.universe
                /\ mpc' = "diff"
                /\ UNCHANGED mresult
    /\ UNCHANGED <<margs, menv, mlog>>
    /\ UNCHANGED outsideMain

\* main: the diff graph.  Without --diff the rerun is computed (compute_rerun
\* refuses an empty universe) and --print-rerun prints it and returns; with
\* --diff the file is read.
MainDiff ==
    /\ mpc = "diff"
    /\ IF ~margs.diff
       THEN IF muniverse = <<>>
            THEN /\ mresult' = "NoUniverseOrDiff"
                 /\ mpc' = "done"
                 /\ UNCHANGED mlog
            ELSE IF margs.print_rerun
            THEN /\ mlog' = Append(mlog, "print_rerun")
                 /\ mresult' = "Ok"
                 /\ mpc' = "done"
            ELSE /\ mpc' = "checks"
                 /\ UNCHANGED <<mlog, mresult>>
       ELSE /\ mpc' = "checks"
            /\ UNCHANGED <<mlog, mresult>>
    /\ UNCHANGED <<margs, menv, muniverse>>
    /\ UNCHANGED outsideMain

\* main: the checks made inline when no error file is asked for
MainChecks ==
    /\ mpc = "checks"
    /\ IF ~margs.write_errors_to_file
       THEN IF CheckEmpty(menv.check_errors) # "Ok"
            THEN /\ mlog' = Append(mlog, "check_errors")
                 /\ mresult' = CheckEmpty(menv.check_errors)
                 /\ mpc' = "done"
            ELSE IF margs.check_dangling
            THEN IF CheckEmpty(menv.check_dangling) # "Ok"
                 THEN /\ mlog' = mlog \o <<"check_errors", "check_dangling">>
                      /\ mresult' = CheckEmpty(menv.check_dangling)
                      /\ mpc' = "done"
                 ELSE /\ mlog' = mlog \o <<"check_errors", "check_dangling">>
                      /\ mpc' = "print"
                      /\ UNCHANGED mresult
            ELSE /\ mlog' = Append(mlog, "check_errors")
                 /\ mpc' = "print"
                 /\ UNCHANGED mresult
       ELSE /\ mpc' = "print"
            /\ UNCHANGED <<mlog, mresult>>
    /\ UNCHANGED <<margs, menv, muniverse>>
    /\ UNCHANGED outsideMain

\* main: the impacted targets are computed and printed
MainPrint ==
    /\ mpc = "print"
    /\ mlog' = Append(mlog, "print_recursive_changes")
    /\ mpc' = "errors_file"
    /\ UNCHANGED <<margs, menv, muniverse, mresult>>
    /\ UNCHANGED outsideMain

\* main: `if let Some(error_file) = args.write_errors_to_file`, with its
\* `assert!(!universe.is_empty())`; write_errors_to_file returns Ok whatever
\* the errors are.
MainWriteErrors ==
    /\ mpc = "errors_file"
    /\ IF margs.write_errors_to_file
       THEN IF muniverse = <<>>
            THEN /\ mresult' = "Panic"
                 /\ UNCHANGED mlog
            ELSE /\ mlog' = Append(mlog, "write_errors_to_file")
                 /\ mresult' = "Ok"
       ELSE /\ mresult' = "Ok"
            /\ UNCHANGED mlog
    /\ mpc' = "done"
    /\ UNCHANGED <<margs, menv, muniverse>>
    /\ UNCHANGED outsideMain

MainNext ==
    MainValidateUniverse \/ MainDiff \/ MainChecks \/ MainPrint \/ MainWriteErrors

(***************************************************************************)
(* Glean changes (btd/src/glean.rs)                                        *)
(***************************************************************************)

\* Changes::filter_by_extension(|x| x == Some(ext))
FilterByExtension(chs, ext) == {c \in chs : CellPathExtension(c.cell_path) = Some(ext)}

\* recursive_target_changes: the loop, from the state s of its queues.
RECURSIVE RecursiveLoop(_, _, _, _, _)
RecursiveLoop(ts, m, d, f, s) ==
    IF ~InRange(d, s.iter) THEN AddResult(ts, s.result, s.todo)
    ELSE IF Len(s.todo) = 0 /\ Len(s.todo_silent) = 0
    THEN AddResult(ts,
            IF Len(s.non_recursive_changes) # 0
            THEN AddResult(ts, s.result, s.non_recursive_changes)
            ELSE s.result,
            s.todo)
    ELSE LET st == Visit(ts, Candidates(ts, m, f, s.todo \o s.todo_silent),
                         [done |-> s.done, next |-> <<>>, next_silent |-> <<>>])
         IN  RecursiveLoop(ts, m, d, f,
                [todo |-> st.next, todo_silent |-> st.next_silent, done |-> st.done,
                 non_recursive_changes |-> <<>>,
                 result |-> IF Len(s.non_recursive_changes) # 0
                            THEN AddResult(ts, s.result, s.non_recursive_changes \o s.todo)
                            ELSE IF Len(s.todo) # 0
                            THEN AddResult(ts, s.result, s.todo)
                            ELSE s.result,
                 iter |-> s.iter + 1])

\* recursive_target_changes
RecursiveTargetChanges(ts, imp, d, f) ==
    IF Len(imp.recursive) = 0
    THEN LET res == (IF Len(imp.non_recursive) = 0 THEN <<>> ELSE <<imp.non_recursive>>)
                        \o << <<>> >>
         IN  IF d = None THEN res ELSE Truncate(res, d[1])
    ELSE RecursiveLoop(ts, BuildRdeps(ts), d, f,
            [todo |-> imp.recursive, todo_silent |-> <<>>, done |-> InitialDone(ts, imp),
             non_recursive_changes |-> imp.non_recursive, result |-> <<>>, iter |-> 0])

\* zip_longest(..).or_default(): the k-th layer of a list, or the empty layer
LayerOrDefault(layers, k) == IF k <= Len(layers) THEN layers[k] ELSE <<>>

\* A variant of the loop below that does not look at what was seen.
MergeItemsUnseen(ts, items, st) ==
    [st EXCEPT !.res1 = SelectSeq(items, LAMBDA x : CxxRuleType(ts[x].rule_type))]

\* merge: the loop over the items of one zipped layer; st holds seen and res1.
RECURSIVE MergeItems(_, _, _)
MergeItems(ts, items, st) ==
    IF Len(items) = 0 THEN st
    ELSE LET item == Head(items)
             key == LabelKey(ts[item])
         IN  MergeItems(ts, Tail(items),
                [seen |-> st.seen \cup {key},
                 res1 |-> IF key \notin st.seen /\ CxxRuleType(ts[item].rule_type)
                          THEN Append(st.res1, item) ELSE st.res1])

\* The graphs tried: the six targets of test_glean, with some of their deps,
\* package values and hashes varied, and the rule file they share.
GleanImports == <<[file |-> "prelude//rules.bzl", imports |-> <<>>]>>

GleanChangeCatalog ==
    { [cell_path |-> "root//test.cpp", project_path |-> "root/test.cpp"],
      [cell_path |-> "root//test.h", project_path |-> "root/test.h"],
      [cell_path |-> "prelude//rules.bzl", project_path |-> "prelude/rules.bzl"] }

GleanTarget(name, rule, deps, inputs, hash, labels) ==
    [package |-> "root//", name |-> name, rule_type |-> "prelude//rules.bzl:" \o rule,
     deps |-> deps, ci_deps |-> <<>>, inputs |-> inputs, ci_srcs |-> <<>>,
     hash |-> hash, package_values |-> PackageValues(labels)]

GleanGraph(lib2deps, bin1deps, bin2deps, old) ==
    << GleanTarget("lib1", "cxx_library", <<>>, <<"root//test.h">>, "1", <<"v1">>),
       GleanTarget("exporter", "other", <<>>, <<"root//test.cpp">>, "1",
                   IF old = "pv" THEN <<"v0">> ELSE <<"v1">>),
       GleanTarget("lib2", "cxx_library", lib2deps, <<>>,
                   IF old = "hash" THEN "0" ELSE "1", <<"v1">>),
       GleanTarget("bin1", "cxx_executable", bin1deps, <<>>, "1", <<"v1">>),
       GleanTarget("bin2", "cxx_executable", bin2deps, <<>>, "1", <<"v1">>),
       GleanTarget("user", "other", <<>>, <<"root//test.cpp">>, "1", <<"v1">>) >>

GleanOff ==
    /\ gpc = "off"
    /\ gBase = <<>> /\ gDiff = <<>> /\ gChanges = {} /\ gDepth = None
    /\ gHeaderRec = <<>> /\ gOtherRec = <<>>
    /\ gSeen = {} /\ gK = 0 /\ gRes = <<>>

GleanInit ==
    /\ gpc = "passes"
    /\ \E lib2deps \in {<<"root//:exporter">>, <<"root//:lib1">>},
          bin1deps \in {<<"root//:lib1", "root//:lib2">>, <<"root//:user">>},
          bin2deps \in {<<"root//:lib2">>, <<"root//:bin1">>},
          old \in {"same", "pv", "hash"} :
        /\ gBase = GleanGraph(lib2deps, bin1deps, bin2deps, old)
        /\ gDiff = GleanGraph(lib2deps, bin1deps, bin2deps, "same")
    /\ gChanges \in SUBSET GleanChangeCatalog
    /\ gDepth \in Depths
    /\ gHeaderRec = <<>> /\ gOtherRec = <<>>
    /\ gSeen = {} /\ gK = 0 /\ gRes = <<>>

\* glean_changes: the header pass and the other pass
GleanPasses ==
    /\ gpc = "passes"
    /\ LET header == ImmediateTargetChanges(gBase, gDiff, GleanImports,
                        FilterByExtension(gChanges, "h"), TRUE)
           other == ImmediateTargetChanges(gBase, gDiff, GleanImports, gChanges, TRUE)
       IN  /\ gHeaderRec' = RecursiveTargetChanges(gDiff, header, gDepth, "all")
           /\ gOtherRec' = RecursiveTargetChanges(gDiff, other, gDepth, "not_cxx")
    /\ gK' = 1
    /\ gpc' = "merge"
    /\ UNCHANGED <<gBase, gDiff, gChanges, gDepth, gSeen, gRes>>
    /\ UNCHANGED outsideGlean

\* merge: one iteration of `for layer in a.into_iter().zip_longest(b)`
GleanMergeLayer ==
    /\ gpc = "merge"
    /\ gK <= Max({Len(gHeaderRec), Len(gOtherRec)})
    /\ LET st == MergeItems(gDiff,
                    LayerOrDefault(gHeaderRec, gK) \o LayerOrDefault(gOtherRec, gK),
                    [seen |-> gSeen, res1 |-> <<>>])
       IN  /\ gSeen' = st.seen
           /\ gRes' = IF Len(st.res1) # 0
                      THEN Append(gRes, SortByLabelKey(gDiff, st.res1))
                      ELSE gRes
    /\ gK' = gK + 1
    /\ UNCHANGED <<gpc, gBase, gDiff, gChanges, gDepth, gHeaderRec, gOtherRec>>
    /\ UNCHANGED outsideGlean

\* merge: the zipped layers are exhausted, res is returned
GleanReturn ==
    /\ gpc = "merge"
    /\ gK > Max({Len(gHeaderRec), Len(gOtherRec)})
    /\ gpc' = "done"
    /\ UNCHANGED <<gBase, gDiff, gChanges, gDepth, gHeaderRec, gOtherRec, gSeen, gK, gRes>>
    /\ UNCHANGED outsideGlean

GleanNext == GleanPasses \/ GleanMergeLayer \/ GleanReturn

(***************************************************************************)
(* uses_sudo propagation and output labels (btd/src/sudo.rs, output.rs)    *)
(***************************************************************************)

\* Labels::contains
LabelsContains(labels, l) == \E n \in 1..Len(labels) : labels[n] = l

\* Labels::merge3
Merge3(a, b, c) == a \o b \o c

\* A variant of the index below that takes the ci_deps for deps too.
SudoRdepsWithCiDeps(ts, label) ==
    SelectSeq(Indices(ts), LAMBDA i :
        \/ \E k \in 1..Len(ts[i].deps) : ts[i].deps[k] = label
        \/ \E k \in 1..Len(ts[i].ci_deps) : ts[i].ci_deps[k] = label)

\* requires_sudo_recursively: rdeps.get(label), the targets that list the
\* label among their deps, in the order of targets.targets() (a target that
\* lists it twice is pushed twice; the second push changes nothing below).
SudoRdeps(ts, label) ==
    SelectSeq(Indices(ts), LAMBDA i : \E k \in 1..Len(ts[i].deps) : ts[i].deps[k] = label)

\* requires_sudo_recursively: the seeds of the first loop
SudoSeeds(ts) == SelectSeq(Indices(ts), LAMBDA i : LabelsContains(ts[i].labels, "uses_sudo"))

\* requires_sudo_recursively: `for parent in parents`, st holds sudos and todo
RECURSIVE SudoParents(_, _, _)
SudoParents(ts, parents, st) ==
    IF Len(parents) = 0 THEN st
    ELSE LET key == LabelKey(ts[Head(parents)])
         IN  SudoParents(ts, Tail(parents),
                IF key \in st.sudos THEN st
                ELSE [sudos |-> st.sudos \cup {key}, todo |-> Append(st.todo, Head(parents))])

\* Output::from_target: the labels field
OutputLabels(x, uses_sudo) ==
    LET additional_labels ==
            IF uses_sudo /\ ~LabelsContains(x.labels, "uses_sudo")
            THEN <<"uses_sudo">> ELSE <<>>
    IN  Merge3(x.package_values.labels, x.labels, additional_labels)

\* The graphs tried: three targets of one package, each with up to
\* MaxSudoDeps deps among the three (cycles included), with or without the
\* uses_sudo label; the first has package labels with or without uses_sudo,
\* the last may name the first in its ci_deps.
MaxSudoDeps == 1

SudoNames == <<"1", "1a", "1b">>

SudoLabels == [i \in 1..Len(SudoNames) |-> PackageJoin("foo//", SudoNames[i])]

SudoDepChoices == {d \in SubSequences(SudoLabels) : Len(d) <= MaxSudoDeps}

SudoTarget(i, deps, ci_deps, labels, package_labels) ==
    [package |-> "foo//", name |-> SudoNames[i],
     rule_type |-> "prelude//rules.bzl:cxx_library",
     deps |-> deps, ci_deps |-> ci_deps, labels |-> labels,
     package_values |-> PackageValues(package_labels)]

SudoOff ==
    /\ spc = "off"
    /\ sTargets = <<>> /\ sTodo = <<>> /\ sSudos = {}
    /\ sIter = 0 /\ sPrinted = 0 /\ sLabels = <<>>

SudoInit ==
    /\ spc = "collect"
    /\ \E d1, d2, d3 \in SudoDepChoices,
          l1, l2, l3 \in {<<"target_label">>, <<"uses_sudo">>},
          p1 \in {<<"must-come-first">>, <<"uses_sudo">>},
          c3 \in {<<>>, <<SudoLabels[1]>>} :
        sTargets = << SudoTarget(1, d1, <<>>, l1, p1),
                      SudoTarget(2, d2, <<>>, l2, <<"must-come-first">>),
                      SudoTarget(3, d3, c3, l3, <<>>) >>
    /\ sTodo = <<>> /\ sSudos = {}
    /\ sIter = 0 /\ sPrinted = 0 /\ sLabels = <<>>

\* requires_sudo_recursively: the loop over targets.targets()
SudoCollect ==
    /\ spc = "collect"
    /\ sTodo' = SudoSeeds(sTargets)
    /\ sSudos' = {LabelKey(sTargets[SudoSeeds(sTargets)[n]]) : n \in 1..Len(SudoSeeds(sTargets))}
    /\ spc' = "loop"
    /\ UNCHANGED <<sTargets, sIter, sPrinted, sLabels>>
    /\ UNCHANGED outsideSudo

\* requires_sudo_recursively: one iteration of `while let Some(lbl) = todo.pop()`
SudoPop ==
    /\ spc = "loop"
    /\ Len(sTodo) # 0
    /\ LET lbl == sTodo[Len(sTodo)]
           st == SudoParents(sTargets, SudoRdeps(sTargets, Label(sTargets[lbl])),
                    [sudos |-> sSudos, todo |-> SubSeq(sTodo, 1, Len(sTodo) - 1)])
       IN  /\ sTodo' = st.todo
           /\ sSudos' = st.sudos
    /\ sIter' = sIter + 1
    /\ UNCHANGED <<spc, sTargets, sPrinted, sLabels>>
    /\ UNCHANGED outsideSudo

\* requires_sudo_recursively: todo is empty, sudos is returned
SudoReturn ==
    /\ spc = "loop"
    /\ Len(sTodo) = 0
    /\ spc' = "print"
    /\ UNCHANGED <<sTargets, sTodo, sSudos, sIter, sPrinted, sLabels>>
    /\ UNCHANGED outsideSudo

\* print_recursive_changes: Output::from_target(x, depth,
\* sudos.contains(&x.label_key()), reason) for a target of the changes
OutputFromTarget ==
    /\ spc = "print"
    /\ \E x \in 1..Len(sTargets) :
        /\ sPrinted' = x
        /\ sLabels' = OutputLabels(sTargets[x], LabelKey(sTargets[x]) \in sSudos)
    /\ spc' = "printed"
    /\ UNCHANGED <<sTargets, sTodo, sSudos, sIter>>
    /\ UNCHANGED outsideSudo

SudoNext == SudoCollect \/ SudoPop \/ SudoReturn \/ OutputFromTarget

(***************************************************************************)
(* The target graph (td_util/src/buck/target_graph.rs)                     *)
(***************************************************************************)

\* DashMap::entry(k).or_default().push(v)
MapPush(m, k, v) ==
    IF k \in DOMAIN m THEN [m EXCEPT ![k] = Append(@, v)] ELSE m @@ (k :> <<v>>)

\* DashMap::remove
MapRemove(m, k) == [x \in DOMAIN m \ {k} |-> m[x]]

\* Vec::retain(|&id| id != v)
Retain(list, v) == SelectSeq(list, LAMBDA id : id # v)

\* `m.get_mut(&k)` and `l.retain(..)` on the guard: what the map holds when
\* the guard is dropped, the emptied list included.
RetainUnderGuard(m, k, v) ==
    IF k \in DOMAIN m THEN [m EXCEPT ![k] = Retain(@, v)] ELSE m

\* A variant of the removal below that leaves the emptied entry in the map.
MapRetainKeepsEmpty(m, k, v) == RetainUnderGuard(m, k, v)

\* `if let Some(mut l) = m.get_mut(&k) { l.retain(..); if l.is_empty() {
\* drop(l); m.remove(&k); } }`, run without interruption.
MapRetain(m, k, v) ==
    IF k \in DOMAIN m
    THEN IF Len(Retain(m[k], v)) = 0 THEN MapRemove(m, k)
         ELSE [m EXCEPT ![k] = Retain(@, v)]
    ELSE m

\* remove_from_deps / remove_from_rdeps for each key of a list in turn
RECURSIVE RetainEach(_, _, _)
RetainEach(m, keys, v) ==
    IF Len(keys) = 0 THEN m ELSE RetainEach(MapRetain(m, Head(keys), v), Tail(keys), v)

\* get_rdeps / get_deps / get_ci_hint_affected / get_affecting_ci_hints, with
\* the empty list for None
MapGet(m, k) == IF k \in DOMAIN m THEN m[k] ELSE <<>>

\* is_ci_hint_target
IsCiHintTarget(minimized, id) == id \in DOMAIN minimized /\ minimized[id] = "ci_hint"

\* A variant of remove_ci_hint_target that leaves the deps of its dependents.
RemoveCiHintTargetKeepsDeps(rmap, dmap, id) ==
    [rdeps |-> RetainEach(MapRemove(rmap, id), MapGet(dmap, id), id), deps |-> dmap]

\* remove_ci_hint_target: the rdeps and deps maps it leaves
RemoveCiHintTarget(rmap, dmap, id) ==
    LET dmap1 == RetainEach(dmap, MapGet(rmap, id), id)
        rmap1 == MapRemove(rmap, id)
    IN  [rdeps |-> RetainEach(rmap1, MapGet(dmap1, id), id), deps |-> dmap1]

\* remove_regular_target: the rdeps and deps maps it leaves
RemoveRegularTarget(rmap, dmap, minimized, id) ==
    [rdeps |-> RetainEach(rmap,
                    SelectSeq(MapGet(dmap, id), LAMBDA dep : ~IsCiHintTarget(minimized, dep)),
                    id),
     deps |-> dmap]

\* The calls tried: three target ids, the first one a ci_hint target, and at
\* most MaxCalls calls in a row.
MaxCalls == 4

TargetIds == {1, 2, 3}

EdgeArgs == {a \in TargetIds \X TargetIds : a[1] # a[2]}

HintEdgeArgs == {<<1, 2>>, <<1, 3>>}

GraphOff ==
    /\ tgpc = "off"
    /\ tgRdeps = <<>> /\ tgDeps = <<>>
    /\ tgHintAffected = <<>> /\ tgAffectedHints = <<>>
    /\ tgMinimized = <<>>
    /\ tgCalls = 0 /\ tgLast = <<>>
    /\ tgRace = <<>> /\ apc = "off" /\ rpc = "off"

\* TargetGraph::new, and the targets of setup_ci_hint_edge stored
GraphInit ==
    /\ tgpc = "calls"
    /\ tgRdeps = <<>> /\ tgDeps = <<>>
    /\ tgHintAffected = <<>> /\ tgAffectedHints = <<>>
    /\ tgMinimized = (1 :> "ci_hint") @@ (2 :> "python_test") @@ (3 :> "python_test")
    /\ tgCalls = 0 /\ tgLast = <<>>
    /\ tgRace = <<>> /\ apc = "off" /\ rpc = "off"

\* rdeps_len, deps_len and the lengths of the two ci_hint maps
MapLens ==
    [rdeps |-> Cardinality(DOMAIN tgRdeps), deps |-> Cardinality(DOMAIN tgDeps),
     ci_hint_to_affected |-> Cardinality(DOMAIN tgHintAffected),
     affected_to_ci_hints |-> Cardinality(DOMAIN tgAffectedHints)]

Call(op, a, b) ==
    /\ tgpc = "calls"
    /\ tgCalls < MaxCalls
    /\ tgCalls' = tgCalls + 1
    /\ tgLast' = [op |-> op, a |-> a, b |-> b, lens |-> MapLens]

\* add_rdep
TgAddRdep ==
    /\ \E a \in EdgeArgs :
        /\ Call("add_rdep", a[1], a[2])
        /\ tgRdeps' = MapPush(tgRdeps, a[1], a[2])
        /\ tgDeps' = MapPush(tgDeps, a[2], a[1])
    /\ UNCHANGED <<tgpc, tgHintAffected, tgAffectedHints, tgMinimized, tgRace, apc, rpc>>
    /\ UNCHANGED outsideGraph

\* remove_rdep
TgRemoveRdep ==
    /\ \E a \in EdgeArgs :
        /\ Call("remove_rdep", a[1], a[2])
        /\ tgRdeps' = MapRetain(tgRdeps, a[1], a[2])
        /\ tgDeps' = MapRetain(tgDeps, a[2], a[1])
    /\ UNCHANGED <<tgpc, tgHintAffected, tgAffectedHints, tgMinimized, tgRace, apc, rpc>>
    /\ UNCHANGED outsideGraph

\* remove_target
TgRemoveTarget ==
    /\ \E id \in TargetIds :
        /\ Call("remove_target", id, id)
        /\ LET g == IF IsCiHintTarget(tgMinimized, id)
                    THEN RemoveCiHintTarget(tgRdeps, tgDeps, id)
                    ELSE RemoveRegularTarget(tgRdeps, tgDeps, tgMinimized, id)
           IN  /\ tgRdeps' = g.rdeps
               /\ tgDeps' = MapRemove(g.deps, id)
               /\ tgMinimized' = MapRemove(tgMinimized, id)
    /\ UNCHANGED <<tgpc, tgHintAffected, tgAffectedHints, tgRace, apc, rpc>>
    /\ UNCHANGED outsideGraph

\* add_ci_hint_edge
TgAddCiHintEdge ==
    /\ \E a \in HintEdgeArgs :
        /\ Call("add_ci_hint_edge", a[1], a[2])
        /\ tgHintAffected' = MapPush(tgHintAffected, a[1], a[2])
        /\ tgAffectedHints' = MapPush(tgAffectedHints, a[2], a[1])
    /\ UNCHANGED <<tgpc, tgRdeps, tgDeps, tgMinimized, tgRace, apc, rpc>>
    /\ UNCHANGED outsideGraph

\* remove_ci_hint_edge
TgRemoveCiHintEdge ==
    /\ \E a \in HintEdgeArgs :
        /\ Call("remove_ci_hint_edge", a[1], a[2])
        /\ tgHintAffected' = MapRetain(tgHintAffected, a[1], a[2])
        /\ tgAffectedHints' = MapRetain(tgAffectedHints, a[2], a[1])
    /\ UNCHANGED <<tgpc, tgRdeps, tgDeps, tgMinimized, tgRace, apc, rpc>>
    /\ UNCHANGED outsideGraph

GraphNext ==
    TgAddRdep \/ TgRemoveRdep \/ TgRemoveTarget \/ TgAddCiHintEdge \/ TgRemoveCiHintEdge

\* add_rdep(t, d1) and remove_rdep(t, d2) on two threads.  A DashMap access
\* (entry..push, get_mut..retain..is_empty until the guard is dropped, remove)
\* is one step; a call is several.  The graphs they start on are built by at
\* most MaxRaceEdges add_rdep calls.
MaxRaceEdges == 2

RECURSIVE AddRdeps(_, _)
AddRdeps(g, edges) ==
    IF Len(edges) = 0 THEN g
    ELSE AddRdeps([rdeps |-> MapPush(g.rdeps, Head(edges)[1], Head(edges)[2]),
                   deps |-> MapPush(g.deps, Head(edges)[2], Head(edges)[1])],
                  Tail(edges))

RaceGraphs ==
    {AddRdeps([rdeps |-> <<>>, deps |-> <<>>], es) :
        es \in UNION {[1..n -> EdgeArgs] : n \in 0..MaxRaceEdges}}

RaceInit ==
    /\ tgpc = "race"
    /\ \E g \in RaceGraphs :
        /\ tgRdeps = g.rdeps
        /\ tgDeps = g.deps
    /\ tgHintAffected = <<>> /\ tgAffectedHints = <<>>
    /\ tgMinimized = <<>>
    /\ tgCalls = 0 /\ tgLast = <<>>
    /\ tgRace \in {r \in [t : TargetIds, d1 : TargetIds, d2 : TargetIds] :
                        r.d1 # r.d2 /\ r.t # r.d1 /\ r.t # r.d2}
    /\ apc = "rdeps" /\ rpc = "rdeps"

\* add_rdep: self.target_id_to_rdeps.entry(target_id).or_default().push(..)
AddRdepPushRdeps ==
    /\ tgpc = "race" /\ apc = "rdeps"
    /\ tgRdeps' = MapPush(tgRdeps, tgRace.t, tgRace.d1)
    /\ apc' = "deps"
    /\ UNCHANGED <<tgpc, tgDeps, tgHintAffected, tgAffectedHints, tgMinimized, tgCalls,
                   tgLast, tgRace, rpc>>
    /\ UNCHANGED outsideGraph

\* add_rdep: self.target_id_to_deps.entry(dependent_target).or_default().push(..)
AddRdepPushDeps ==
    /\ tgpc = "race" /\ apc = "deps"
    /\ tgDeps' = MapPush(tgDeps, tgRace.d1, tgRace.t)
    /\ apc' = "returned"
    /\ UNCHANGED <<tgpc, tgRdeps, tgHintAffected, tgAffectedHints, tgMinimized, tgCalls,
                   tgLast, tgRace, rpc>>
    /\ UNCHANGED outsideGraph

\* remove_rdep: get_mut(&target_id), retain, is_empty, and the guard dropped
RemoveRdepRetainRdeps ==
    /\ tgpc = "race" /\ rpc = "rdeps"
    /\ tgRdeps' = RetainUnderGuard(tgRdeps, tgRace.t, tgRace.d2)
    /\ rpc' = IF tgRace.t \in DOMAIN tgRdeps /\ Len(Retain(tgRdeps[tgRace.t], tgRace.d2)) = 0
              THEN "rdeps_remove" ELSE "deps"
    /\ UNCHANGED <<tgpc, tgDeps, tgHintAffected, tgAffectedHints, tgMinimized, tgCalls,
                   tgLast, tgRace, apc>>
    /\ UNCHANGED outsideGraph

\* remove_rdep: self.target_id_to_rdeps.remove(&target_id)
RemoveRdepRemoveRdeps ==
    /\ tgpc = "race" /\ rpc = "rdeps_remove"
    /\ tgRdeps' = MapRemove(tgRdeps, tgRace.t)
    /\ rpc' = "deps"
    /\ UNCHANGED <<tgpc, tgDeps, tgHintAffected, tgAffectedHints, tgMinimized, tgCalls,
                   tgLast, tgRace, apc>>
    /\ UNCHANGED outsideGraph

\* remove_rdep: get_mut(&dependent_target), retain, is_empty, the guard dropped
RemoveRdepRetainDeps ==
    /\ tgpc = "race" /\ rpc = "deps"
    /\ tgDeps' = RetainUnderGuard(tgDeps, tgRace.d2, tgRace.t)
    /\ rpc' = IF tgRace.d2 \in DOMAIN tgDeps /\ Len(Retain(tgDeps[tgRace.d2], tgRace.t)) = 0
              THEN "deps_remove" ELSE "returned"
    /\ UNCHANGED <<tgpc, tgRdeps, tgHintAffected, tgAffectedHints, tgMinimized, tgCalls,
                   tgLast, tgRace, apc>>
    /\ UNCHANGED outsideGraph

\* remove_rdep: self.target_id_to_deps.remove(&dependent_target)
RemoveRdepRemoveDeps ==
    /\ tgpc = "race" /\ rpc = "deps_remove"
    /\ tgDeps' = MapRemove(tgDeps, tgRace.d2)
    /\ rpc' = "returned"
    /\ UNCHANGED <<tgpc, tgRdeps, tgHintAffected, tgAffectedHints, tgMinimized, tgCalls,
                   tgLast, tgRace, apc>>
    /\ UNCHANGED outsideGraph

RaceNext ==
    \/ AddRdepPushRdeps \/ AddRdepPushDeps
    \/ RemoveRdepRetainRdeps \/ RemoveRdepRemoveRdeps
    \/ RemoveRdepRetainDeps \/ RemoveRdepRemoveDeps

(***************************************************************************)
(* Specifications                                                          *)
(***************************************************************************)

Init ==
    ImpactInit /\ CellOff /\ PatternOff /\ RerunOff /\ CheckOff /\
    MainOff /\ GleanOff /\ SudoOff /\ GraphOff

Next == Immediate \/ EarlyReturn \/ Setup \/ LoopBody \/ LoopBreak \/ LoopExhausted

Spec == Init /\ [][Next]_vars

InitCells ==
    CellInit /\ ImpactOff /\ PatternOff /\ RerunOff /\
    CheckOff /\ MainOff /\ GleanOff /\ SudoOff /\ GraphOff

SpecCells == InitCells /\ [][CellNext]_vars

InitPatterns ==
    PatternInit /\ CellOff /\ ImpactOff /\ RerunOff /\
    CheckOff /\ MainOff /\ GleanOff /\ SudoOff /\ GraphOff

SpecPatterns == InitPatterns /\ [][PatternNext]_vars

InitCheckErrors ==
    CheckErrorsInit /\ CellOff /\ ImpactOff /\
    PatternOff /\ RerunOff /\ MainOff /\ GleanOff /\ SudoOff /\ GraphOff

SpecCheckErrors == InitCheckErrors /\ [][CheckErrors]_vars

InitCheckDangling ==
    CheckDanglingInit /\ CellOff /\ ImpactOff /\
    PatternOff /\ RerunOff /\ MainOff /\ GleanOff /\ SudoOff /\ GraphOff

SpecCheckDangling == InitCheckDangling /\ [][CheckDangling]_vars

InitRerun ==
    RerunInit /\ CellOff /\ ImpactOff /\ PatternOff /\
    CheckOff /\ MainOff /\ GleanOff /\ SudoOff /\ GraphOff

SpecRerun == InitRerun /\ [][RerunNext]_vars

InitMain ==
    MainInit /\ CellOff /\ ImpactOff /\ PatternOff /\ RerunOff /\
    CheckOff /\ GleanOff /\ SudoOff /\ GraphOff

SpecMain == InitMain /\ [][MainNext]_vars

InitGlean ==
    GleanInit /\ CellOff /\ ImpactOff /\ PatternOff /\
    RerunOff /\ CheckOff /\ MainOff /\ SudoOff /\ GraphOff

SpecGlean == InitGlean /\ [][GleanNext]_vars

InitSudo ==
    SudoInit /\ CellOff /\ ImpactOff /\ PatternOff /\ RerunOff /\
    CheckOff /\ MainOff /\ GleanOff /\ GraphOff

SpecSudo == InitSudo /\ [][SudoNext]_vars

InitGraph ==
    GraphInit /\ CellOff /\ ImpactOff /\ PatternOff /\
    RerunOff /\ CheckOff /\ MainOff /\ GleanOff /\ SudoOff

SpecGraph == InitGraph /\ [][GraphNext]_vars

InitRace ==
    RaceInit /\ CellOff /\ ImpactOff /\ PatternOff /\ RerunOff /\
    CheckOff /\ MainOff /\ GleanOff /\ SudoOff

SpecRace == InitRace /\ [][RaceNext]_vars

(***************************************************************************)
(* Properties                                                              *)
(***************************************************************************)

\* The vocabulary of the properties: the layers of the result, the immediate
\* lists, and the reverse edges of the diff graph as the targets declare them.
Layer(k) == {result[k][n] : n \in 1..Len(result[k])}

Emitted == UNION {Layer(k) : k \in 1..Len(result)}

LayerZero == IF Len(result) = 0 THEN {} ELSE Layer(1)

Recursive == {impact.recursive[k] : k \in 1..Len(impact.recursive)}

NonRecursive == {impact.non_recursive[k] : k \in 1..Len(impact.non_recursive)}

DepEdge(i, j) == \E k \in 1..Len(diff[j].deps) : diff[j].deps[k] = Label(diff[i])

CiEdge(i, j) ==
    \E k \in 1..Len(diff[j].ci_deps) : TargetPatternMatches(diff[j].ci_deps[k], Label(diff[i]))

HintEdge(i, j) ==
    /\ RuleTypeShort(diff[i].rule_type) = "ci_hint"
    /\ diff[i].package = diff[j].package
    /\ diff[i].name = "ci_hint@" \o diff[j].name

\* j is a reverse dependency of i.
ReverseEdge(i, j) == DepEdge(i, j) \/ CiEdge(i, j) \/ HintEdge(i, j)

Follows(i) == FollowRuleType(follow, diff[i].rule_type)

\* The reverse dependencies of the targets of S (of those that are followed,
\* when restricted).
Successors(S, restricted) ==
    {j \in 1..Len(diff) : \E i \in S : (restricted => Follows(i)) /\ ReverseEdge(i, j)}

RECURSIVE ReachFrom(_, _)
ReachFrom(S, restricted) ==
    LET T == S \cup Successors(S, restricted)
    IN  IF T = S THEN S ELSE ReachFrom(T, restricted)

\* The targets at most k reverse edges away from S.
RECURSIVE Ball(_, _)
Ball(S, k) == IF k = 0 THEN S ELSE Ball(S, k - 1) \cup Successors(Ball(S, k - 1), FALSE)

\* The dirty .bzl set, as a least fixed point over the tracked Import entries.
TrackedImport(i) == trackPrelude \/ ~IsPreludeBzlFile(diffImports[i].file)

RECURSIVE DirtyBzlFrom(_)
DirtyBzlFrom(D) ==
    LET more == {diffImports[i].file : i \in {j \in 1..Len(diffImports) :
                    /\ TrackedImport(j)
                    /\ \E k \in 1..Len(diffImports[j].imports) : diffImports[j].imports[k] \in D}}
    IN  IF more \subseteq D THEN D ELSE DirtyBzlFrom(D \cup more)

DirtyBzl ==
    DirtyBzlFrom({diffImports[i].file : i \in {j \in 1..Len(diffImports) :
        TrackedImport(j) /\ \E c \in changes : c.cell_path = diffImports[j].file}})

\* The five reasons of a recursive change, as the specification lists them.
RecursiveReason(t) ==
    \/ \E c \in changes : c.cell_path = t.package
    \/ ~\E b \in 1..Len(base) : LabelKey(base[b]) = LabelKey(t)
    \/ \E b \in 1..Len(base) : LabelKey(base[b]) = LabelKey(t) /\ base[b].hash # t.hash
    \/ \E k \in 1..Len(t.inputs) : \E c \in changes : c.cell_path = t.inputs[k]
    \/ \E k \in 1..Len(t.ci_srcs) : \E c \in changes : GlobMatches(t.ci_srcs[k], c.project_path)
    \/ RuleTypeFile(t.rule_type) \in DirtyBzl

PackageValuesDiffer(t) ==
    \E b \in 1..Len(base) :
        LabelKey(base[b]) = LabelKey(t) /\ base[b].package_values # t.package_values

\* C1: immediate_target_changes puts a diff target in the recursive list iff
\* its package directory is a changed path, or it is new or its hash differs
\* from base, or one of its inputs changed, or a changed path matches one of
\* its ci_srcs, or its rule's .bzl file is dirty; in the non-recursive list iff
\* none of those hold and its package values differ; never in both lists.
C1_Classification ==
    pc = "recursive" =>
        \A i \in 1..Len(diff) :
            /\ (i \in Recursive) <=> RecursiveReason(diff[i])
            /\ (i \in NonRecursive) <=> (~RecursiveReason(diff[i]) /\ PackageValuesDiffer(diff[i]))
            /\ ~(i \in Recursive /\ i \in NonRecursive)

\* A target recursive only through the dirty .bzl set (h.bzl changed), next to
\* a target with changed package values whose prelude rule file is not tracked.
C1_Witness ==
    /\ pc = "recursive"
    /\ ~trackPrelude
    /\ {c.cell_path : c \in changes} = {"prelude//u.bzl", "f//h.bzl"}
    /\ Len(impact.recursive) = 1
    /\ Len(impact.non_recursive) = 1
    /\ \A i \in Recursive : \E b \in 1..Len(base) : base[b] = diff[i]

\* C2: with depth = None and every rule type followed, the union of the layers
\* is the immediate targets plus every target reachable over reverse edges from
\* an immediate recursive target; what only a non-recursive immediate target
\* reaches is not in it.
C2_TransitiveSet ==
    (pc = "done" /\ depth = None /\ follow = "all") =>
        Emitted = Recursive \cup NonRecursive \cup ReachFrom(Recursive, FALSE)

\* A run that propagated and left out a reverse dependency of a non-recursive
\* immediate target.
C2_Witness ==
    /\ pc = "done" /\ depth = None /\ follow = "all"
    /\ Len(result) >= 3
    /\ \E n \in NonRecursive : \E j \in 1..Len(diff) : ReverseEdge(n, j) /\ j \notin Emitted

\* C3: the layers partition the affected targets by BFS depth: a target emitted
\* in layer k >= 1 is within k reverse edges of layer 0 and has a reverse-edge
\* predecessor in layer k-1.
C3_BfsDepth ==
    (pc = "done" /\ follow = "all") =>
        \A k \in 2..Len(result) : \A x \in Layer(k) :
            /\ x \in Ball(LayerZero, k - 1)
            /\ \E p \in Layer(k - 1) : ReverseEdge(p, x)

\* C4: no label_key occurs twice in the concatenation of the layers.
C4_Unique ==
    pc = "done" =>
        LET all == ConcatAll(result)
        IN  \A a, b \in 1..Len(all) :
                a # b => LabelKey(diff[all[a]]) # LabelKey(diff[all[b]])

\* A run over a cycle in which propagation reached a non-recursive immediate
\* target again.
C4_Witness ==
    /\ pc = "done"
    /\ \E n \in NonRecursive : LabelKey(diff[n]) \in DOMAIN done /\ done[LabelKey(diff[n])]
    /\ \E i, j \in Emitted : ReverseEdge(i, j) /\ ReverseEdge(j, i)

\* C5: every element of a layer k >= 1 is reached from an element of layer 0
\* by a path of reverse edges that leave followed targets only.
C5_PathToLayerZero ==
    pc = "done" =>
        \A k \in 2..Len(result) :
            Layer(k) \subseteq ReachFrom(Successors(LayerZero, TRUE), TRUE)

\* A run that does not follow cxx rules, with a cxx target in layer 0 whose
\* reverse dependency stays out, and a non-empty layer 1.
C5_Witness ==
    /\ pc = "done" /\ follow = "not_cxx"
    /\ Len(result) >= 2 /\ Layer(2) # {}
    /\ \E i \in LayerZero : ~Follows(i) /\ \E j \in 1..Len(diff) : ReverseEdge(i, j) /\ j \notin Emitted

\* C6: for every depth limit, every immediate target (recursive or not) is
\* emitted in layer 0, and the non-recursive targets form no layer of their own
\* when the recursive list is non-empty.
C6_ImmediateInLayerZero ==
    pc = "done" =>
        /\ Recursive \cup NonRecursive \subseteq LayerZero
        /\ Recursive # {} =>
            \A k \in 1..Len(result) : Layer(k) # {} => ~(Layer(k) \subseteq NonRecursive)

\* C7: recursive_target_changes terminates, cycles or not: the loop runs at
\* most as many iterations as the diff has targets (every iteration but the
\* first needs a target newly marked done); with depth = None the last layer is
\* the empty sentinel and every earlier layer is non-empty; with depth = Some(n)
\* the loop runs at most n iterations and the result has at most n+1 layers.
C7_Termination ==
    /\ pc = "loop" => iter <= Len(diff)
    /\ depth # None => iter <= depth[1]
    /\ (pc = "done" /\ depth # None) => Len(result) <= depth[1] + 1
    /\ (pc = "done" /\ depth = None) =>
            /\ Len(result) >= 1
            /\ Len(result[Len(result)]) = 0
            /\ \A k \in 1..(Len(result) - 1) : Len(result[k]) # 0

\* An unlimited run over a cycle, finished with two layers and the sentinel.
C7_Witness ==
    /\ pc = "done" /\ depth = None
    /\ Len(result) >= 3
    /\ \E i \in Emitted : i \in Successors(Successors({i}, FALSE), FALSE)

C9_HintEdge ==
    /\ (pc = "done" /\ (IF depth = None THEN TRUE ELSE depth[1] >= 1)) =>
        \A h \in Recursive : \A x \in 1..Len(diff) :
            (HintEdge(h, x) /\ x \notin Recursive \cup NonRecursive) =>
                (Len(result) >= 2 /\ x \in Layer(2))
    /\ pc = "done" =>
        \A h \in 1..Len(diff) :
            (/\ RuleTypeShort(diff[h].rule_type) = "ci_hint"
             /\ \A x \in 1..Len(diff) : ~HintEdge(h, x)) =>
                LET got == TargetMapGet(rdeps, Label(diff[h]))
                IN  \A n \in 1..Len(got) : DepEdge(h, got[n]) \/ CiEdge(h, got[n])

\* The hint of f//a:x is the only recursive change and f//a:x is in layer 1,
\* while the two ci_hint-typed targets of f//b are in the graph without an edge.
C9_Witness ==
    /\ pc = "done"
    /\ \E h \in Recursive : \E x \in 1..Len(diff) :
        /\ HintEdge(h, x)
        /\ x \notin Recursive \cup NonRecursive
        /\ Len(result) >= 2 /\ x \in Layer(2)
        /\ \A j \in 1..Len(diff) : ~DepEdge(h, j) /\ ~CiEdge(h, j)
    /\ \E h \in 1..Len(diff) : diff[h].name = "y" /\ TargetMapGet(rdeps, Label(diff[h])) = <<>>

\* C10: for every CellInfo built from a cells map and every CellPath p whose
\* cell is in the map, unresolve(resolve(p)) = p.
C10_RoundTrip == cpc = "done" => unresolved = Some(cellPath)

\* C11: when a pattern matches a label, matches_package of the label's
\* package is false for a specific pattern and true for a package pattern
\* (ends with ':') and for a recursive pattern (ends with '/...').
C11_MatchesPackageConsistent ==
    (ppc = "done" /\ matched) =>
        /\ IsSpecificTarget(pattern) => ~matchedPackage
        /\ (EndsWith(pattern, ":") \/ EndsWith(pattern, "/...")) => matchedPackage

\* A recursive pattern that matched a label of the package it names.
C11_Witness ==
    /\ ppc = "done" /\ matched
    /\ pattern = "foo//bar/..."
    /\ targetLabel = "foo//bar:qux"

\* The vocabulary of the rerun properties: the changed paths, and the paths
\* that look like configuration or like a buck deployment.
ChangedPaths == {rrChanges[n].path : n \in 1..Len(rrChanges)}

ChangedWith(status) ==
    {rrChanges[n].path : n \in {k \in 1..Len(rrChanges) : rrChanges[k].status = status}}

ConfigLike(p) ==
    \/ CellPathExtension(p) \in {Some("bcfg"), Some("buckconfig")}
    \/ Contains(p, "/mode/")
    \/ Contains(p, "/buckconfigs/")
    \/ StartsWith(p, "fbsource//tools/buck2-versions/")

\* C12: rerun returns None exactly when some changed path is a buckconfig
\* path (extension bcfg or buckconfig, or /mode/ or /buckconfigs/ in it) or a
\* buck deployment path; otherwise it returns Some(map), whatever else changed.
C12_EverythingIff ==
    rrpc = "done" => (rrOut = None <=> \E p \in ChangedPaths : ConfigLike(p))

C12_Witness ==
    /\ rrpc = "done" /\ rrOut = None
    /\ "fbsource//tools/buck2-versions/stable" \in ChangedPaths
    /\ "foo//bar/BUCK" \in ChangedPaths

\* C13: a changed path under buck2/tests is not a buckconfig change, and a
\* change set whose only configuration-like paths lie under buck2/tests does
\* not make rerun return None.
C13_Buck2TestsExcluded ==
    /\ \A p \in ChangedPaths : Contains(p, "buck2/tests") => ~IsBuckconfigChange(p)
    /\ (/\ rrpc = "done"
        /\ \A p \in ChangedPaths : ConfigLike(p) => Contains(p, "buck2/tests"))
       => rrOut # None

\* The files that are dirty: the Modified and the Removed paths, and the files
\* of the Import entries of base that import a dirty file.
BaseEntries == {rrBase[n] : n \in 1..Len(rrBase)}

ImportsFile(e, f) == \E n \in 1..Len(e.imports) : e.imports[n] = f

RECURSIVE DirtyFrom(_)
DirtyFrom(S) ==
    LET more == {e.file : e \in {x \in BaseEntries : \E f \in S : ImportsFile(x, f)}}
    IN  IF more \subseteq S THEN S ELSE DirtyFrom(S \cup more)

DirtyFiles == DirtyFrom(ChangedWith("Modified") \cup ChangedWith("Removed"))

StarlarkReturned == rrpc \in {"package_file", "globs", "existence"} \/ (rrpc = "done" /\ rrOut # None)

\* C14: rerun_starlark finds exactly the packages of the Import entries of base
\* whose file is dirty (a Modified or Removed path, or a file that imports one
\* transitively) and the parents of the Modified build files; an Added path
\* is dirty only through what it imports; the worklist visits every dirty
\* file once, so it ends on a cyclic import graph.
C14_StarlarkPackages ==
    /\ rrpc = "starlark" =>
           /\ rrDone \subseteq DirtyFiles
           /\ rrIter + Len(rrTodo) = Cardinality(rrDone)
    /\ StarlarkReturned =>
           /\ rrDone = DirtyFiles
           /\ rrIter = Cardinality(DirtyFiles)
           /\ rrChanged =
                  {e.package[1] : e \in {x \in BaseEntries : IsSome(x.package) /\ x.file \in DirtyFiles}}
                  \cup {CellPathParent(f) : f \in {g \in ChangedWith("Modified") : IsTargetFile(g)}}

C14_Witness ==
    /\ rrpc = "done" /\ rrOut # None
    /\ rrChanges = <<[status |-> "Modified", path |-> "foo//utils.bzl"],
                     [status |-> "Added", path |-> "foo//bar/PACKAGE"]>>
    /\ rrDone = {"foo//utils.bzl", "foo//bar/defs.bzl", "foo//bar/BUCK"}
    /\ rrChanged = {"foo//bar"}
    /\ rrIter = 3

\* The packages whose build file was added, and those whose build file was
\* removed.
BuildFileAdded == {CellPathParent(f) : f \in {g \in ChangedWith("Added") : IsTargetFile(g)}}

BuildFileRemoved == {CellPathParent(f) : f \in {g \in ChangedWith("Removed") : IsTargetFile(g)}}

Reordered(cs) == {[n \in 1..Len(cs) |-> cs[f[n]]] : f \in Permutations(1..Len(cs))}

\* C15: rerun_build_file_existence maps a package to Present if one of its
\* build files is Added, to Unknown if one is Removed and none is Added, and
\* has no other entry; every reordering of the change list gives the same map.
C15_BuildFileExistence ==
    (rrpc = "done" /\ rrOut # None) =>
        /\ DOMAIN rrExistence = BuildFileAdded \cup BuildFileRemoved
        /\ \A p \in DOMAIN rrExistence :
               rrExistence[p] = IF p \in BuildFileAdded THEN "Present" ELSE "Unknown"
        /\ \A cs \in Reordered(rrChanges) :
               RerunBuildFileExistence(EmptyMap, cs, 1) = rrExistence

C15_Witness ==
    /\ rrpc = "done" /\ rrOut # None
    /\ rrChanges = <<[status |-> "Added", path |-> "foo//bar/BUCK.v2"],
                     [status |-> "Removed", path |-> "foo//bar/BUCK"]>>
    /\ rrExistence = [x \in {"foo//bar"} |-> "Present"]

\* C16: in the map rerun returns, a package whose build file was Removed and
\* none Added is Unknown, also when the Starlark, PACKAGE-file or glob source
\* found it; every other package of the map is Present.
C16_ExistencePrecedence ==
    (rrpc = "done" /\ rrOut # None) =>
        /\ DOMAIN rrOut[1] =
               rrChanged
               \cup RerunPackageFile(rrChanges, rrDone, PackageSet(rrBase))
               \cup RerunGlobs(rrChanges, PackageSet(rrBase))
               \cup BuildFileAdded \cup BuildFileRemoved
        /\ \A p \in DOMAIN rrOut[1] :
               rrOut[1][p] = IF p \in BuildFileRemoved \ BuildFileAdded
                             THEN "Unknown" ELSE "Present"

C16_Witness ==
    /\ rrpc = "done" /\ rrOut # None
    /\ "foo//bar" \in rrChanged
    /\ "foo//bar" \in RerunGlobs(rrChanges, PackageSet(rrBase))
    /\ "foo//bar" \in RerunPackageFile(rrChanges, rrDone, PackageSet(rrBase))
    /\ rrOut[1]["foo//bar"] = "Unknown"
    /\ \E p \in DOMAIN rrOut[1] : rrOut[1][p] = "Present"

\* The vocabulary of the properties of the checks: the packages with an error
\* at each revision, and the errors returned, by kind.
BaseErrorPackages == {ckBaseErrors[n].package : n \in 1..Len(ckBaseErrors)}

DiffErrorPackages == {ckDiffErrors[n].package : n \in 1..Len(ckDiffErrors)}

ErrorsOfKind(kind) == {n \in 1..Len(ckErrors) : ckErrors[n].kind = kind}

\* C17: with no changes, check_errors returns one PackageFailed for each
\* package that has an error in diff and none in base, and nothing else:
\* nothing when the errors are the same, when errors only disappear, and when
\* a package fails in both with another message.
C17_NewErrors ==
    (ckpc = "errors_done" /\ ckChanges = <<>>) =>
        LET new == DiffErrorPackages \ BaseErrorPackages
        IN  /\ Len(ckErrors) = Cardinality(new)
            /\ \A n \in 1..Len(ckErrors) :
                   /\ ckErrors[n].kind = "PackageFailed"
                   /\ ckErrors[n].package \in new
                   /\ \E k \in 1..Len(ckDiffErrors) :
                          /\ ckDiffErrors[k].package = ckErrors[n].package
                          /\ ckDiffErrors[k].error = ckErrors[n].error
            /\ \A q \in new : \E n \in 1..Len(ckErrors) : ckErrors[n].package = q
            /\ DiffErrorPackages \subseteq BaseErrorPackages => ckErrors = <<>>

C17_Witness ==
    /\ ckpc = "errors_done" /\ ckChanges = <<>>
    /\ ckBaseErrors = <<[package |-> "foo//bar", error |-> "Bad 1"]>>
    /\ ckDiffErrors = <<[package |-> "foo//bar", error |-> "Bad 0"],
                        [package |-> "foo//baz", error |-> "Bad 0"]>>
    /\ ckErrors = <<PackageFailed("foo//baz", "Bad 0")>>

\* The diff-error packages that are the deepest one equal to or enclosing a
\* changed path.
Offending ==
    {a \in DiffErrorPackages :
        \E n \in 1..Len(ckChanges) :
            /\ PackageEncloses(a, ckChanges[n])
            /\ \A b \in DiffErrorPackages : PackageEncloses(b, ckChanges[n]) => Len(b) <= Len(a)}

\* C18: check_errors returns PreexistingPackageFailed only when it returns no
\* PackageFailed; then it returns one entry for each distinct offending
\* package, and each of them has an error in base too.
C18_PreexistingErrors ==
    ckpc = "errors_done" =>
        /\ ErrorsOfKind("PreexistingPackageFailed") # {} => ErrorsOfKind("PackageFailed") = {}
        /\ ErrorsOfKind("PackageFailed") = {} =>
               /\ {ckErrors[n].package : n \in 1..Len(ckErrors)} = Offending
               /\ Len(ckErrors) = Cardinality(Offending)
               /\ \A n \in 1..Len(ckErrors) : ckErrors[n].kind = "PreexistingPackageFailed"
               /\ Offending \subseteq BaseErrorPackages

C18_Witness ==
    /\ ckpc = "errors_done"
    /\ ckChanges = <<"foo//bar/baz/qux/file.txt", "foo//bar/file.txt">>
    /\ ckErrors = <<PreexistingPackageFailed("foo//bar/baz", "Bad 1"),
                    PreexistingPackageFailed("foo//bar", "Bad 0")>>

\* The vocabulary of check_dangling: the labels at each revision, the deps of
\* a label at base, the universe.
LabelsOf(ts) == {Label(ts[n]) : n \in 1..Len(ts)}

DepsOfTarget(t) == {t.deps[n] : n \in 1..Len(t.deps)}

DepsAtBase(t) ==
    UNION {DepsOfTarget(ckBaseTargets[n]) :
               n \in {k \in 1..Len(ckBaseTargets) : LabelKey(ckBaseTargets[k]) = LabelKey(t)}}

WithinUniverse(d) ==
    ckUniverse = <<>> \/ \E n \in 1..Len(ckUniverse) : TargetPatternMatches(ckUniverse[n], d)

\* C19: check_dangling reports a BrokenEdge for (T, d) exactly when T is an
\* immediately changed target, d is one of its deps, d is no target of diff,
\* d is no dep of T at base, and d is in the universe.
C19_BrokenEdges ==
    ckpc = "dangling_done" =>
        {<<ckErrors[n].referenced_by, ckErrors[n].missing>> : n \in ErrorsOfKind("BrokenEdge")}
        = UNION {{<<Label(ckImmediate[n]), d>> :
                      d \in {e \in DepsOfTarget(ckImmediate[n]) :
                                /\ e \notin LabelsOf(ckDiffTargets)
                                /\ e \notin DepsAtBase(ckImmediate[n])
                                /\ WithinUniverse(e)}} : n \in 1..Len(ckImmediate)}

C19_Witness ==
    /\ ckpc = "dangling_done"
    /\ ckBaseTargets = <<TargetTarget("aaa", <<"ccc">>), TargetTarget("bbb", <<"aaa">>)>>
    /\ ckDiffTargets = <<TargetTarget("aaa", <<"ccc">>), TargetTarget("bbb", <<"aaa", "ccc">>)>>
    /\ ckImmediate = ckDiffTargets
    /\ ckUniverse = <<"foo//...">>
    /\ ckErrors = <<BrokenEdge("foo//bar:ccc", "foo//bar:bbb")>>

\* C20: check_dangling reports at most one TargetDeleted for a base target
\* that is absent from diff, and reports one exactly when a diff target has
\* it in its deps and it is in the universe; no other target is reported
\* deleted.
C20_DeletedTargets ==
    ckpc = "dangling_done" =>
        LET deleted == LabelsOf(ckBaseTargets) \ LabelsOf(ckDiffTargets)
        IN  /\ \A n \in ErrorsOfKind("TargetDeleted") : ckErrors[n].deleted \in deleted
            /\ \A d \in deleted :
                   Cardinality({n \in ErrorsOfKind("TargetDeleted") : ckErrors[n].deleted = d})
                   = IF /\ \E n \in 1..Len(ckDiffTargets) : d \in DepsOfTarget(ckDiffTargets[n])
                        /\ WithinUniverse(d)
                     THEN 1 ELSE 0

C20_Witness ==
    /\ ckpc = "dangling_done"
    /\ ckBaseTargets = <<TargetTarget("aaa", <<>>), TargetTarget("bbb", <<"aaa">>),
                         TargetTarget("ccc", <<"aaa">>)>>
    /\ ckDiffTargets = <<TargetTarget("bbb", <<"aaa">>), TargetTarget("ccc", <<"aaa">>)>>
    /\ ckUniverse = <<>>
    /\ ckErrors = <<TargetDeleted("foo//bar:aaa", "foo//bar:bbb")>>
\* The vocabulary of the driver's properties: the patterns main was given, in
\* the order validate_universe reads them, what makes a pattern refused, and
\* what main has printed or returned.
GivenPatterns == margs.universe \o margs.universe2

Unqualified(u) == StartsWith(u, "//")

NamesTarget(u) ==
    \E i \in 1..Len(u) :
        /\ CharAt(u, i) = ":"
        /\ i < Len(u)
        /\ \A j \in (i + 1)..Len(u) : CharAt(u, j) # ":"

Refused(u) == Unqualified(u) \/ NamesTarget(u)

Validated == mpc \notin {"validate", "off"}

UniverseError == mresult \in {"MissingQualifier", "ExplicitTarget"}

Logged(step) == \E i \in 1..Len(mlog) : mlog[i] = step

ChecksReached ==
    /\ mpc \in {"print", "errors_file", "done"}
    /\ ~UniverseError
    /\ mresult # "NoUniverseOrDiff"
    /\ ~Logged("print_rerun")

\* C21: without write_errors_to_file, once main is past its checks a non-empty
\* check_errors result, or with check_dangling a non-empty check_dangling
\* result, has made main return NewErrors with no impacted target printed;
\* with write_errors_to_file neither check is run, the error file is written
\* only after the impacted targets are printed, and main never returns
\* NewErrors.
C21_FatalOnlyInline ==
    /\ (ChecksReached /\ ~margs.write_errors_to_file /\
        (menv.check_errors # <<>> \/
         (margs.check_dangling /\ menv.check_dangling # <<>>)))
       => (mresult = "NewErrors" /\ ~Logged("print_recursive_changes"))
    /\ (mpc # "off" /\ margs.write_errors_to_file)
       => /\ ~Logged("check_errors") /\ ~Logged("check_dangling")
          /\ mresult # "NewErrors"
          /\ Logged("write_errors_to_file") =>
                /\ Len(mlog) = 2
                /\ mlog[1] = "print_recursive_changes"
                /\ mlog[2] = "write_errors_to_file"
                /\ mresult = "Ok"

C21_Witness ==
    /\ mpc = "done"
    /\ ~margs.write_errors_to_file /\ margs.check_dangling
    /\ menv.check_errors = <<>> /\ menv.check_dangling # <<>>
    /\ mresult = "NewErrors"
    /\ mlog = <<"check_errors", "check_dangling">>

\* C22 as written: validate_universe fails with MissingQualifier if some
\* pattern starts with //, with ExplicitTarget if some pattern names a
\* specific target, and otherwise returns every pattern in input order.
C22_AsWritten ==
    Validated =>
        /\ (\E i \in 1..Len(GivenPatterns) : Unqualified(GivenPatterns[i]))
           => mresult = "MissingQualifier"
        /\ (\E i \in 1..Len(GivenPatterns) : NamesTarget(GivenPatterns[i]))
           => mresult = "ExplicitTarget"
        /\ (\A i \in 1..Len(GivenPatterns) : ~Refused(GivenPatterns[i]))
           => (~UniverseError /\ muniverse = GivenPatterns)

\* C22: validate_universe fails iff some pattern is refused, and the first
\* refused pattern in input order decides the error: MissingQualifier if it
\* starts with //, whether or not it also names a specific target, and
\* ExplicitTarget otherwise; on failure no pattern list is returned, and with
\* no refused pattern every pattern is returned in input order.
C22_FirstRefusedDecides ==
    Validated =>
        /\ \A i \in 1..Len(GivenPatterns) :
              (Refused(GivenPatterns[i]) /\
               \A j \in 1..(i - 1) : ~Refused(GivenPatterns[j]))
              => /\ mresult = (IF Unqualified(GivenPatterns[i])
                               THEN "MissingQualifier" ELSE "ExplicitTarget")
                 /\ muniverse = <<>>
                 /\ mpc = "done"
        /\ (\A i \in 1..Len(GivenPatterns) : ~Refused(GivenPatterns[i]))
           => (~UniverseError /\ muniverse = GivenPatterns)

C22_Witness ==
    /\ Validated
    /\ Len(GivenPatterns) >= 2
    /\ NamesTarget(GivenPatterns[1]) /\ ~Unqualified(GivenPatterns[1])
    /\ Unqualified(GivenPatterns[2])
    /\ mresult = "ExplicitTarget"

\* The vocabulary of the rule changes: the Import entries whose file is a
\* changed path, the files that import one of a set of files directly or
\* through other files, and the targets no other reason makes recursive.
ChangedImports ==
    {diffImports[i].file : i \in {j \in 1..Len(diffImports) :
        \E c \in changes : c.cell_path = diffImports[j].file}}

RECURSIVE ImportersOf(_)
ImportersOf(S) ==
    LET more == {diffImports[i].file : i \in {j \in 1..Len(diffImports) :
                    \E k \in 1..Len(diffImports[j].imports) : diffImports[j].imports[k] \in S}}
    IN  IF more \subseteq S THEN S ELSE ImportersOf(S \cup more)

NoOtherReason(t) ==
    /\ ~ChangePackage(changes, t)
    /\ ~ChangeHash(base, t)
    /\ ~ChangeInputs(changes, t)
    /\ ~ChangeCiSrcs(changes, t)

ImmediateDone == pc \notin {"immediate", "off"}

\* C23: for a target that nothing else makes recursive, with prelude tracking
\* it is a recursive change iff its rule_type file is a changed Import file or
\* imports one directly or transitively (so a changed file that only imports
\* the rule file does not count); without prelude tracking, changed prelude
\* files alone mark no target, a changed non-prelude rule file still marks
\* its targets, and a marked target's rule file is, or transitively imports,
\* a changed non-prelude Import file.
C23_RuleChanges ==
    ImmediateDone =>
        \A i \in 1..Len(diff) :
            NoOtherReason(diff[i]) =>
                LET f == RuleTypeFile(diff[i].rule_type)
                IN  /\ trackPrelude =>
                          (i \in Recursive <=> f \in ImportersOf(ChangedImports))
                    /\ ~trackPrelude =>
                          /\ (\A c \in ChangedImports : IsPreludeBzlFile(c))
                             => i \notin Recursive
                          /\ (f \in ChangedImports /\ ~IsPreludeBzlFile(f))
                             => i \in Recursive
                          /\ i \in Recursive =>
                                f \in ImportersOf({c \in ChangedImports : ~IsPreludeBzlFile(c)})

C23_Witness ==
    /\ ImmediateDone
    /\ trackPrelude
    /\ ChangedImports = {"prelude//u.bzl"}
    /\ \E i \in 1..Len(diff) :
          /\ NoOtherReason(diff[i])
          /\ RuleTypeFile(diff[i].rule_type) = "f//h.bzl"
          /\ i \in Recursive

\* The vocabulary of the Glean merge: the targets of a layer and of a layer
\* list, the zipped layer in which a target first occurs, the layer of the
\* result that holds it, and how often the result holds it.
LayerTargets(layer) == {layer[n] : n \in 1..Len(layer)}

ListTargets(layers) == UNION {LayerTargets(layers[k]) : k \in 1..Len(layers)}

IsCxx(x) ==
    \/ EndsWith(gDiff[x].rule_type, ":cxx_library")
    \/ EndsWith(gDiff[x].rule_type, ":cxx_executable")

FirstMerged(x) ==
    Min({k \in 1..Max({Len(gHeaderRec), Len(gOtherRec)}) :
            \/ (k <= Len(gHeaderRec) /\ x \in LayerTargets(gHeaderRec[k]))
            \/ (k <= Len(gOtherRec) /\ x \in LayerTargets(gOtherRec[k]))})

ResultLayers(x) == {n \in 1..Len(gRes) : x \in LayerTargets(gRes[n])}

TimesEmitted(x) ==
    Cardinality({<<n, m>> \in (1..Len(gRes)) \X (1..Len(gDiff)) :
                    m <= Len(gRes[n]) /\ gRes[n][m] = x})

GleanDependsOn(j, i) == \E k \in 1..Len(gDiff[j].deps) : gDiff[j].deps[k] = Label(gDiff[i])

\* C24: the merged result holds only cxx_library and cxx_executable targets,
\* no empty layer, and layers sorted by label_key; when merge returns, every
\* cxx target of either pass is in the result exactly once, and the layers of
\* the result follow the zipped layers in which the targets first occur; and
\* a target of a later layer of the other pass is a dependent of a target of
\* an earlier layer that is not a cxx target.
C24_GleanMerge ==
    gpc \in {"merge", "done"} =>
        /\ \A n \in 1..Len(gRes) :
              /\ Len(gRes[n]) # 0
              /\ \A m \in 1..Len(gRes[n]) : IsCxx(gRes[n][m])
              /\ \A m \in 1..(Len(gRes[n]) - 1) :
                    LabelKeyLess(LabelKey(gDiff[gRes[n][m]]), LabelKey(gDiff[gRes[n][m + 1]]))
        /\ \A x \in 1..Len(gDiff) : TimesEmitted(x) <= 1
        /\ gpc = "done" =>
              /\ ListTargets(gRes) =
                    {x \in ListTargets(gHeaderRec) \cup ListTargets(gOtherRec) : IsCxx(x)}
              /\ \A x, y \in ListTargets(gRes) :
                    /\ FirstMerged(x) < FirstMerged(y)
                       => \A n \in ResultLayers(x), m \in ResultLayers(y) : n < m
                    /\ FirstMerged(x) = FirstMerged(y)
                       => ResultLayers(x) = ResultLayers(y)
        /\ \A k \in 2..Len(gOtherRec) : \A j \in LayerTargets(gOtherRec[k]) :
              \E i \in UNION {LayerTargets(gOtherRec[h]) : h \in 1..(k - 1)} :
                  ~IsCxx(i) /\ GleanDependsOn(j, i)

\* Both passes emit lib1; bin1 depends on it and is reached in the header
\* pass only, lib2 is reached in the other pass through exporter.
C24_Witness ==
    /\ gpc = "done"
    /\ Len(gRes) = 2
    /\ \E x \in LayerTargets(gHeaderRec[1]) \cap LayerTargets(gOtherRec[1]) :
          /\ IsCxx(x)
          /\ \E j \in LayerTargets(gRes[2]) :
                GleanDependsOn(j, x) /\ j \notin ListTargets(gOtherRec)
    /\ \E j \in LayerTargets(gRes[2]) : j \notin ListTargets(gHeaderRec)
    /\ \E i \in LayerTargets(gOtherRec[1]) : ~IsCxx(i)

\* The vocabulary of the uses_sudo properties: the targets that carry the
\* label, the targets that depend on one of a set through deps edges, and
\* whether the label was propagated to the printed target.
CarriesSudo(i) == \E n \in 1..Len(sTargets[i].labels) : sTargets[i].labels[n] = "uses_sudo"

RECURSIVE DependentsOf(_)
DependentsOf(S) ==
    LET more == {j \in 1..Len(sTargets) :
                    \E i \in S : \E k \in 1..Len(sTargets[j].deps) :
                        sTargets[j].deps[k] = Label(sTargets[i])}
    IN  IF more \subseteq S THEN S ELSE DependentsOf(S \cup more)

NeedsSudo == DependentsOf({i \in 1..Len(sTargets) : CarriesSudo(i)})

SudoReturned == spc \in {"print", "printed"}

Propagated == LabelKey(sTargets[sPrinted]) \in sSudos

\* C25: the labels of an output are the package labels, then the target's
\* labels, then one uses_sudo iff uses_sudo is propagated to the target and
\* neither the package labels nor the target's labels hold it already.
C25_OutputLabels ==
    spc = "printed" =>
        LET emitted == sTargets[sPrinted].package_values.labels \o sTargets[sPrinted].labels
        IN  sLabels = emitted \o
                (IF Propagated /\ ~\E n \in 1..Len(emitted) : emitted[n] = "uses_sudo"
                 THEN <<"uses_sudo">> ELSE <<>>)

\* C26: requires_sudo_recursively returns the label keys of exactly the
\* targets that carry uses_sudo or depend on such a target through a chain of
\* deps edges, ci_deps not counting; and its loop runs at most once per
\* target, whatever cycles the deps have.
C26_SudoClosure ==
    /\ spc # "off" => sIter <= Len(sTargets)
    /\ SudoReturned => sSudos = {LabelKey(sTargets[i]) : i \in NeedsSudo}

\* The first two targets depend on each other and the first carries
\* uses_sudo: the loop goes round the cycle and stops; the third names the
\* first in its ci_deps only and is left out.
C26_Witness ==
    /\ SudoReturned
    /\ sTargets[1].deps = <<Label(sTargets[2])>>
    /\ sTargets[2].deps = <<Label(sTargets[1])>>
    /\ CarriesSudo(1) /\ ~CarriesSudo(2) /\ ~CarriesSudo(3)
    /\ sTargets[3].deps = <<>>
    /\ sTargets[3].ci_deps = <<Label(sTargets[1])>>
    /\ sSudos = {LabelKey(sTargets[1]), LabelKey(sTargets[2])}
    /\ sIter = 2

\* The vocabulary of the target graph: what the getters return, as sets.
GetRdeps(t) == IF t \in DOMAIN tgRdeps THEN {tgRdeps[t][n] : n \in 1..Len(tgRdeps[t])} ELSE {}

GetDeps(d) == IF d \in DOMAIN tgDeps THEN {tgDeps[d][n] : n \in 1..Len(tgDeps[d])} ELSE {}

CiHintStored(t) == t \in DOMAIN tgMinimized /\ tgMinimized[t] = "ci_hint"

NoEmptyList(m) == \A k \in DOMAIN m : Len(m[k]) # 0

C28_NoEmptyEntries ==
    tgpc = "calls" =>
        /\ NoEmptyList(tgRdeps) /\ NoEmptyList(tgDeps)
        /\ NoEmptyList(tgHintAffected) /\ NoEmptyList(tgAffectedHints)
        /\ (tgCalls > 0 /\ tgLast.op = "remove_rdep") =>
              /\ tgLast.b \notin GetRdeps(tgLast.a)
              /\ tgLast.a \notin GetDeps(tgLast.b)
        /\ (tgCalls > 0 /\ tgLast.op = "remove_ci_hint_edge") =>
              /\ \A n \in 1..Len(MapGet(tgHintAffected, tgLast.a)) :
                    tgHintAffected[tgLast.a][n] # tgLast.b
              /\ \A n \in 1..Len(MapGet(tgAffectedHints, tgLast.b)) :
                    tgAffectedHints[tgLast.b][n] # tgLast.a

\* A remove_ci_hint_edge call has just made both ci_hint maps shorter, and
\* the getters of its two keys return None.
C28_Witness ==
    /\ tgpc = "calls" /\ tgCalls > 0
    /\ tgLast.op = "remove_ci_hint_edge"
    /\ Cardinality(DOMAIN tgHintAffected) < tgLast.lens.ci_hint_to_affected
    /\ Cardinality(DOMAIN tgAffectedHints) < tgLast.lens.affected_to_ci_hints
    /\ tgLast.a \notin DOMAIN tgHintAffected
    /\ tgLast.b \notin DOMAIN tgAffectedHints

\* C29: once add_rdep(t, d1) and remove_rdep(t, d2) have both returned, d1 is
\* in get_rdeps(t) and t is in get_deps(d1).
C29_AddedEdgeKept ==
    (tgpc = "race" /\ apc = "returned" /\ rpc = "returned") =>
        /\ tgRace.d1 \in GetRdeps(tgRace.t)
        /\ tgRace.t \in GetDeps(tgRace.d1)

\* C30: whenever main is at the step that writes all errors to a file with
\* write_errors_to_file set, the validated universe is not empty.
C30_UniverseNonEmpty ==
    (mpc = "errors_file" /\ margs.write_errors_to_file) => muniverse # <<>>

====
